---- MODULE Spec2Model ----
(***************************************************************************)
(* Model of the point-placement engine of src/src/App.tsx (first App       *)
(* component, lines 1-939): score model, grouping, drag controller, snap   *)
(* resolver, title casing, the add-movie form and the hand-off to the      *)
(* persistence adapter; and of the deck and movie routes of the backend    *)
(* (src/server/index.js) over the tables of its schema.                    *)
(*                                                                         *)
(* Numbers.  Scores are kept in hundredths (7.25 is 725, 10 is 1000), so   *)
(* that scores off the 0.1 grid can be told from scores on it.  Screen     *)
(* coordinates are whole pixels.  Arithmetic is exact: the grid rectangle  *)
(* is chosen so that no pointer position maps to a half-way case of        *)
(* Math.round, where IEEE rounding noise would decide.                     *)
(*                                                                         *)
(* React.  A state update (setDeckMovies, setDraggingGroup, ...) changes   *)
(* the state at once; the DOM and the closures of the handlers change at   *)
(* the next Render; the passive effects of that render (the moviesRef      *)
(* mirror, the window listeners, the deck load) run at FlushEffects.       *)
(* Events may arrive between these steps.                                  *)
(***************************************************************************)
EXTENDS Integers, Sequences, FiniteSets, TLC

VARIABLES
    deckMovies,      \* useState<Movie[]>                      (App.tsx:90)
    selectedDeckId,  \* useState<string | null>                (App.tsx:91)
    draggingGroup,   \* useState<{type,key,ids} | null>        (App.tsx:102)
    gridRef,         \* TRUE while gridRef.current is the grid (App.tsx:107)
    moviesRef,       \* moviesRef.current                      (App.tsx:108)
    lastPointerRef,  \* lastPointerRef.current                 (App.tsx:109)
    rendered,        \* what the last render committed: the DOM and the closures
    listener,        \* the closure of the registered window listeners
    effectsPending,  \* the last render's passive effects have not run yet
    loadReq,         \* deck whose loadDeck() is in flight and still active
    addReq,          \* POST bodies in flight (handleSubmit)
    removeReq,       \* the DELETEs in flight: movie id, deck of the closure (removeMovie)
    sent,            \* requests issued by the latest step
    last,            \* the release the latest step performed, if it was one (history)
    origin,          \* where the latest session's movies were at pointer-down (history)
    out,             \* arguments and result of the pure function a step applied
    saveReq,         \* drag commits in flight (persistMoviePositions awaiting)
    error,           \* useState<string | null>                (App.tsx:96)
    decks,           \* movieCount of each deck of useState<Deck[]> (App.tsx:89)
    loading,         \* useState(false)                        (App.tsx:97)
    staleLoads,      \* decks whose loadDeck() is in flight with isActive false
    decksReq,        \* loadDecks() calls in flight (GET /api/decks)
    budget,          \* the events beside the drag the behaviour may have
    db,              \* the tables of the backend's database   (server/schema.sql)
    requests,        \* the requests the backend is working on, each at its await
    nRequests,       \* requests the backend has received
    clients,         \* remoteClient (configured?), activeClient, hasFallenBack (db.js)
    executing,       \* the db.execute calls in flight, each on the client it awaits
    nCalls,          \* db.execute calls made
    nSessions, nMoves, nAdds, nRemoves, nSelects

vars == << deckMovies, selectedDeckId, draggingGroup, gridRef, moviesRef,
           lastPointerRef, rendered, listener, effectsPending, loadReq,
           addReq, removeReq, sent, last, origin, out, saveReq, error,
           decks, loading, staleLoads, decksReq, budget,
           db, requests, nRequests, clients, executing, nCalls,
           nSessions, nMoves, nAdds, nRemoves, nSelects >>

\* The backend's part of the state, and the app's (without `out`).
fallback == << clients, executing, nCalls >>
server == << db, requests, nRequests, fallback >>
client == << deckMovies, selectedDeckId, draggingGroup, gridRef, moviesRef,
             lastPointerRef, rendered, listener, effectsPending, loadReq,
             addReq, removeReq, sent, last, origin, saveReq, error,
             decks, loading, staleLoads, decksReq, budget,
             nSessions, nMoves, nAdds, nRemoves, nSelects >>

\* The deck list, the syncing flag and the loads that were abandoned.
sidebar == << decks, loading, staleLoads, decksReq >>

----------------------------------------------------------------------------
(* Bounds of the exploration *)

\* pointer-downs, pointer-moves per session, and events beside the drag (an add,
\* a remove, a deck selection, a failed commit; an unmount only while none of
\* them has happened) in one behaviour
MaxSessions == 1
MaxMoves == 1
MaxRequests == 1

\* the same events in a behaviour of the deck list on its own
MaxDeckRequests == 3

\* drag commits in flight that are kept track of: a commit handed off while
\* that many are in flight is not followed to its completion
MaxSaves == 1

\* loads of the deck list in flight that are kept track of
MaxDeckLoads == 1

\* length of the movie lists handed to the Grouping Engine on its own
MaxListLen == 3

\* requests the backend receives in one behaviour
MaxServerRequests == 2

\* db.execute calls in one behaviour of the database client
MaxCalls == 3

----------------------------------------------------------------------------
(* Generic helpers *)

Min2(a, b) == IF a <= b THEN a ELSE b
Max2(a, b) == IF a >= b THEN a ELSE b

Range(s) == { s[i] : i \in 1..Len(s) }

RECURSIVE Filter(_, _)
Filter(s, keep) ==
    IF s = << >> THEN << >>
    ELSE IF Head(s).id \in keep
         THEN << Head(s) >> \o Filter(Tail(s), keep)
         ELSE Filter(Tail(s), keep)

----------------------------------------------------------------------------
(* Score model *)

clampScore(value) == Min2(1000, Max2(0, value))

\* Mutant of roundScore: the value is returned as it is.
roundScore_Unrounded(value) == value

\* Math.round(value * 10) / 10: to the nearest tenth, a half rounds up.
roundScore(value) == ((value + 5) \div 10) * 10

Digits == << "0", "1", "2", "3", "4", "5", "6", "7", "8", "9" >>

\* Mutant of NumberToString: the digit after the decimal point is dropped.
NumberToString_NoTenth(value) ==
    LET whole == value \div 100
    IN  IF whole >= 10
        THEN << Digits[(whole \div 10) + 1], Digits[(whole % 10) + 1] >>
        ELSE << Digits[whole + 1] >>

\* Number.prototype.toString of a non-negative score on the 0.1 grid:
\* "7", "7.3", "10".
NumberToString(value) ==
    LET whole  == value \div 100
        tenth  == (value % 100) \div 10
        intStr == IF whole >= 10
                  THEN << Digits[(whole \div 10) + 1], Digits[(whole % 10) + 1] >>
                  ELSE << Digits[whole + 1] >>
    IN  IF tenth = 0 THEN intStr ELSE intStr \o << ".", Digits[tenth + 1] >>

\* The template string `${funScore}-${goodScore}`.
GroupKey(funScore, goodScore) ==
    NumberToString(funScore) \o << "-" >> \o NumberToString(goodScore)

----------------------------------------------------------------------------
(* Titles.  a.title.localeCompare(b.title) on the titles of the model.     *)

\* The titles of the model in the order of the default collation of
\* String.prototype.localeCompare: letters first, and between two titles that
\* differ by case alone the lower-case one first.
TitleOrder ==
    << "alien", "Alien", "brazil", "Brazil", "Casablanca", "Dune", "Eraserhead" >>

TitleRank(title) == CHOOSE i \in 1..Len(TitleOrder) : TitleOrder[i] = title

\* The same titles in the order of their UTF-16 code units (upper case first).
CodeUnitOrder ==
    << "Alien", "Brazil", "Casablanca", "Dune", "Eraserhead", "alien", "brazil" >>

\* Mutant of localeCompare: the comparison of code units (a < b ? -1 : 1).
localeCompare_CodeUnits(a, b) ==
    LET rank(t) == CHOOSE i \in 1..Len(CodeUnitOrder) : CodeUnitOrder[i] = t
    IN  rank(a) - rank(b)

localeCompare(a, b) == TitleRank(a) - TitleRank(b)

\* The titles of the model with their upper-case letters folded to lower case.
LowerCased(title) ==
    CASE title \in { "alien", "Alien" }   -> "alien"
      [] title \in { "brazil", "Brazil" } -> "brazil"
      [] title = "Casablanca"             -> "casablanca"
      [] title = "Dune"                   -> "dune"
      [] title = "Eraserhead"             -> "eraserhead"

\* ORDER BY m.title COLLATE NOCASE: the comparison of the folded titles.
NoCaseRank(title) ==
    LET folded == << "alien", "brazil", "casablanca", "dune", "eraserhead" >>
    IN  CHOOSE i \in 1..Len(folded) : folded[i] = LowerCased(title)

----------------------------------------------------------------------------
(* Title casing.  A typed title is the sequence of its characters.          *)

LowerLetters ==
    << "a", "b", "c", "d", "e", "f", "g", "h", "i", "j", "k", "l", "m",
       "n", "o", "p", "q", "r", "s", "t", "u", "v", "w", "x", "y", "z" >>

UpperLetters ==
    << "A", "B", "C", "D", "E", "F", "G", "H", "I", "J", "K", "L", "M",
       "N", "O", "P", "Q", "R", "S", "T", "U", "V", "W", "X", "Y", "Z" >>

\* The characters that \s matches, among those of the model.
IsSpace(c) == c \in { " ", "\t" }

\* String.prototype.toLowerCase and toUpperCase, character by character.
charToLowerCase(c) ==
    IF \E i \in 1..26 : UpperLetters[i] = c
    THEN LowerLetters[CHOOSE i \in 1..26 : UpperLetters[i] = c]
    ELSE c

charToUpperCase(c) ==
    IF \E i \in 1..26 : LowerLetters[i] = c
    THEN UpperLetters[CHOOSE i \in 1..26 : LowerLetters[i] = c]
    ELSE c

toLowerCase(value) == [ i \in 1..Len(value) |-> charToLowerCase(value[i]) ]

\* String.prototype.trim.
RECURSIVE trimStart(_)
trimStart(value) ==
    IF value # << >> /\ IsSpace(Head(value)) THEN trimStart(Tail(value)) ELSE value

RECURSIVE trimEnd(_)
trimEnd(value) ==
    IF value # << >> /\ IsSpace(value[Len(value)])
    THEN trimEnd(SubSeq(value, 1, Len(value) - 1))
    ELSE value

trim(value) == trimEnd(trimStart(value))

\* value.split(/\s+/): the fields between the runs of white space; `field` is
\* the field being read and `fields` those already closed.
RECURSIVE SplitFrom(_, _, _)
SplitFrom(value, field, fields) ==
    IF value = << >> THEN Append(fields, field)
    ELSE IF IsSpace(Head(value))
         THEN SplitFrom(trimStart(value), << >>, Append(fields, field))
         ELSE SplitFrom(Tail(value), Append(field, Head(value)), fields)

split(value) == SplitFrom(value, << >>, << >>)

\* words.join(' ').
RECURSIVE join(_)
join(words) ==
    IF words = << >> THEN << >>
    ELSE IF Len(words) = 1 THEN words[1]
    ELSE words[1] \o << " " >> \o join(Tail(words))

smallWords ==
    { << "a" >>,
      << "a", "n" >>,
      << "a", "n", "d" >>,
      << "a", "s" >>,
      << "a", "t" >>,
      << "b", "u", "t" >>,
      << "b", "y" >>,
      << "f", "o", "r" >>,
      << "f", "r", "o", "m" >>,
      << "i", "n" >>,
      << "n", "o", "r" >>,
      << "o", "f" >>,
      << "o", "n" >>,
      << "o", "r" >>,
      << "t", "h", "e" >>,
      << "t", "o" >>,
      << "w", "i", "t", "h" >> }

\* Mutant of KeepsLowerCase: a small word stays lower-case wherever it stands.
KeepsLowerCase_Anywhere(word, index, words) == word \in smallWords

\* !isFirst && !isLast && smallWords.has(word).
KeepsLowerCase(word, index, words) ==
    /\ index # 1
    /\ index # Len(words)
    /\ word \in smallWords

formatTitle(value) ==
    LET words == split(toLowerCase(trim(value)))
    IN  join([ index \in 1..Len(words) |->
                 IF words[index] = << >> THEN << >>
                 ELSE IF KeepsLowerCase(words[index], index, words) THEN words[index]
                 ELSE << charToUpperCase(words[index][1]) >> \o Tail(words[index]) ])

\* The string of a sequence of characters.
RECURSIVE Text(_)
Text(value) == IF value = << >> THEN "" ELSE Head(value) \o Text(Tail(value))

----------------------------------------------------------------------------
(* Grouping engine *)

\* Mutant of KeyIndex: no key is ever found in the Map.
KeyIndex_NeverFound(groups, key) == 0

KeyIndex(groups, key) ==
    IF \E i \in 1..Len(groups) : groups[i].key = key
    THEN CHOOSE i \in 1..Len(groups) : groups[i].key = key
    ELSE 0

\* The forEach of groupedMovies over a Map in insertion order.
RECURSIVE GroupedFold(_, _)
GroupedFold(movies, groups) ==
    IF movies = << >> THEN groups
    ELSE LET movie     == Head(movies)
             funScore  == roundScore(clampScore(movie.fun))
             goodScore == roundScore(clampScore(movie.good))
             key       == GroupKey(funScore, goodScore)
             existing  == KeyIndex(groups, key)
             item      == [id |-> movie.id, title |-> movie.title]
         IN  IF existing # 0
             THEN GroupedFold(Tail(movies),
                     [groups EXCEPT ![existing].items = Append(@, item),
                                    ![existing].ids = Append(@, movie.id)])
             ELSE GroupedFold(Tail(movies),
                     Append(groups, [key |-> key, fun |-> funScore,
                                     good |-> goodScore,
                                     items |-> << item >>,
                                     ids |-> << movie.id >>]))

\* Array.prototype.sort with (a, b) => a.title.localeCompare(b.title): stable.
RECURSIVE SortItems(_)
SortItems(items) ==
    IF items = << >> THEN << >>
    ELSE LET rest == SortItems(Tail(items))
             x    == Head(items)
             k    == Cardinality({ i \in 1..Len(rest) :
                                     localeCompare(rest[i].title, x.title) < 0 })
         IN  SubSeq(rest, 1, k) \o << x >> \o SubSeq(rest, k + 1, Len(rest))

groupedMovies(movies) ==
    LET groups == GroupedFold(movies, << >>)
    IN  [ i \in 1..Len(groups) |->
            [groups[i] EXCEPT !.items = SortItems(groups[i].items)] ]

----------------------------------------------------------------------------
(* Absent values (null) *)

NoDrag    == [type |-> "none", key |-> << >>, ids |-> << >>]
NoPointer == [x |-> -1, y |-> -1]
NoSnap    == [fun |-> -1, good |-> -1]
NoDeck    == "none"
NoLast    == [ev |-> "none", drag |-> NoDrag, snap |-> NoSnap, via |-> "none"]
NoOrigin  == [fun |-> -1, good |-> -1, all |-> FALSE]
NoError   == "none"
SaveFailed == "Failed to save movie positions."
LoadFailed == "Failed to load deck."
DecksFailed == "Failed to load decks."
AddFailed == "Failed to add movie."
RemoveFailed == "Failed to remove movie."

----------------------------------------------------------------------------
(* Geometry: what getBoundingClientRect() answers.                         *)
(* The grid is a fixed rectangle.  A group's anchor (.movie-point) is a    *)
(* square centred on the group's left/top percentage; its label container  *)
(* (.movie-label) lies to the right of it and holds one line per item,     *)
(* each line starting with the item's title ([data-movie-id]).             *)

GridRect == [left |-> 20, top |-> 10, width |-> 500, height |-> 500]

Layout == [dot |-> 10, labelX |-> 10, labelY |-> -5,
           titleW |-> 50, lineH |-> 10, labelW |-> 60]

\* style={{ left: `${left}%`, top: `${top}%` }} inside the grid.
AnchorX(good) == GridRect.left + (clampScore(good) * GridRect.width) \div 1000
AnchorY(fun)  == GridRect.top + ((1000 - clampScore(fun)) * GridRect.height) \div 1000

AnchorRect(group) ==
    [left   |-> AnchorX(group.good) - Layout.dot \div 2,
     top    |-> AnchorY(group.fun) - Layout.dot \div 2,
     width  |-> Layout.dot,
     height |-> Layout.dot]

LabelRect(group) ==
    [left   |-> AnchorX(group.good) + Layout.labelX,
     top    |-> AnchorY(group.fun) + Layout.labelY,
     width  |-> Layout.labelW,
     height |-> Layout.lineH * Len(group.items)]

TitleRect(group, i) ==
    [left   |-> AnchorX(group.good) + Layout.labelX,
     top    |-> AnchorY(group.fun) + Layout.labelY + (i - 1) * Layout.lineH,
     width  |-> Layout.titleW,
     height |-> Layout.lineH]

\* Hit test of a pointer position against an element's rectangle.
Inside(p, r) ==
    /\ r.left <= p.x /\ p.x < r.left + r.width
    /\ r.top <= p.y /\ p.y < r.top + r.height

\* What one render commits: the list and the session its closures hold, and
\* the groups its useMemo of groupedMovies computes from that list.
Rendering(movies, drag, deck) ==
    [mounted |-> TRUE, movies |-> movies, groups |-> groupedMovies(movies),
     drag |-> drag, deck |-> deck]

\* The groups in the DOM: the render maps groupedMovies to .movie-point nodes.
DomGroups == IF rendered.mounted THEN rendered.groups ELSE << >>

\* grid.querySelector(`.movie-point[data-group-key="..."]`) in the DOM `dom`:
\* index or 0.
QueryGroup(dom, key) == KeyIndex(dom, key)

ItemIndex(group, id) ==
    IF \E i \in 1..Len(group.items) : group.items[i].id = id
    THEN CHOOSE i \in 1..Len(group.items) : group.items[i].id = id
    ELSE 0

\* grid.querySelector(`[data-movie-id="..."]`): index of the group holding it.
QueryMovie(dom, id) ==
    IF \E g \in 1..Len(dom) : ItemIndex(dom[g], id) # 0
    THEN CHOOSE g \in 1..Len(dom) : ItemIndex(dom[g], id) # 0
    ELSE 0

----------------------------------------------------------------------------
(* Snap resolver: findSnapTarget *)

\* The Map `groups` of findSnapTarget, in insertion order, built from
\* moviesRef.current without the dragged ids.
RECURSIVE SnapGroupsFold(_, _, _)
SnapGroupsFold(movies, excludeSet, groups) ==
    IF movies = << >> THEN groups
    ELSE LET movie     == Head(movies)
             funScore  == roundScore(clampScore(movie.fun))
             goodScore == roundScore(clampScore(movie.good))
             key       == GroupKey(funScore, goodScore)
             existing  == KeyIndex(groups, key)
         IN  IF movie.id \in excludeSet
             THEN SnapGroupsFold(Tail(movies), excludeSet, groups)
             ELSE IF existing # 0
             THEN SnapGroupsFold(Tail(movies), excludeSet,
                     [groups EXCEPT ![existing].ids = Append(@, movie.id)])
             ELSE SnapGroupsFold(Tail(movies), excludeSet,
                     Append(groups, [key |-> key, fun |-> funScore,
                                     good |-> goodScore, ids |-> << movie.id >>]))

SnapGroups(dragging) == SnapGroupsFold(moviesRef, Range(dragging.ids), << >>)

intersectionArea(a, b) ==
    LET x1 == Max2(a.left, b.left)
        y1 == Max2(a.top, b.top)
        x2 == Min2(a.left + a.width, b.left + b.width)
        y2 == Min2(a.top + a.height, b.top + b.height)
        width  == Max2(0, x2 - x1)
        height == Max2(0, y2 - y1)
    IN  width * height

\* A ratio is the fraction num / den, den > 0.
overlapRatio(a, b) ==
    LET areaA == a.width * a.height
        areaB == b.width * b.height
    IN  IF areaA = 0 \/ areaB = 0
        THEN [num |-> 0, den |-> 1]
        ELSE [num |-> intersectionArea(a, b), den |-> Min2(areaA, areaB)]

RatioGE(r, s) == r.num * s.den >= s.num * r.den
RatioGT(r, s) == r.num * s.den > s.num * r.den

overlapThreshold == [num |-> 8, den |-> 10]

\* The rectangles of the dragged element, in the order they are pushed.
draggedRects(dom, dragging) ==
    IF dragging.type = "single"
    THEN LET g == QueryMovie(dom, dragging.key[1])
         IN  IF g = 0 THEN << >>
             ELSE << TitleRect(dom[g], ItemIndex(dom[g], dragging.key[1])),
                     AnchorRect(dom[g]) >>
    ELSE LET g == QueryGroup(dom, dragging.key)
         IN  IF g = 0 THEN << >>
             ELSE << AnchorRect(dom[g]), LabelRect(dom[g]) >>

\* The rectangles of one candidate group's element, in the order one dragged
\* rectangle is compared with them: dotRect, then every [data-movie-id].
CandidateRects(el) ==
    << AnchorRect(el) >> \o [ i \in 1..Len(el.items) |-> TitleRect(el, i) ]

\* The overlap ratios of one candidate group, in evaluation order: the outer
\* loop runs over the dragged rectangles, the inner one over the candidate's.
GroupRatios(dragged, el) ==
    LET cand == CandidateRects(el)
        n    == Len(cand)
    IN  [ k \in 1..(Len(dragged) * n) |->
            overlapRatio(dragged[((k - 1) \div n) + 1], cand[((k - 1) % n) + 1]) ]

NoBest == [fun |-> -1, good |-> -1, ratio |-> [num |-> 0, den |-> 1]]

\* Mutant of BetterOverlap: the threshold is exclusive.
BetterOverlap_Exclusive(ratio, best) ==
    RatioGT(ratio, overlapThreshold) /\ (best = NoBest \/ RatioGT(ratio, best.ratio))

\* Mutant of BetterOverlap: a later pair with an equal ratio replaces the best.
BetterOverlap_LastWins(ratio, best) ==
    RatioGE(ratio, overlapThreshold) /\ (best = NoBest \/ RatioGE(ratio, best.ratio))

\* if (ratio >= overlapThreshold && (!best || ratio > best.ratio)) best = ...
BetterOverlap(ratio, best) ==
    RatioGE(ratio, overlapThreshold) /\ (best = NoBest \/ RatioGT(ratio, best.ratio))

RECURSIVE BestInGroup(_, _, _)
BestInGroup(ratios, group, best) ==
    IF ratios = << >> THEN best
    ELSE BestInGroup(Tail(ratios), group,
            IF BetterOverlap(Head(ratios), best)
            THEN [fun |-> group.fun, good |-> group.good, ratio |-> Head(ratios)]
            ELSE best)

\* One iteration of groups.forEach of the overlap step: a group whose element
\* is not in the DOM is skipped, and so is every group when draggedRects is empty.
OverlapStep(dom, dragged, group, best) ==
    LET groupEl == QueryGroup(dom, group.key)
    IN  IF groupEl = 0 \/ Len(dragged) = 0
        THEN best
        ELSE BestInGroup(GroupRatios(dragged, dom[groupEl]), group, best)

RECURSIVE BestOverlap(_, _, _, _)
BestOverlap(dom, groups, dragged, best) ==
    IF groups = << >> THEN best
    ELSE LET next == OverlapStep(dom, dragged, Head(groups), best)
         IN  BestOverlap(dom, Tail(groups), dragged, next)

SnapDistance == 18

NoNearest == [fun |-> -1, good |-> -1, d2 |-> -1]

\* Math.hypot(clientX - x, clientY - y), squared.
Distance2(group, clientX, clientY) ==
    LET x == GridRect.left + (clampScore(group.good) * GridRect.width) \div 1000
        y == GridRect.top + ((1000 - clampScore(group.fun)) * GridRect.height) \div 1000
    IN  (clientX - x) * (clientX - x) + (clientY - y) * (clientY - y)

\* Mutant of CloserGroup: the 18 px threshold is exclusive.
CloserGroup_Exclusive(d2, nearest) ==
    d2 < SnapDistance * SnapDistance /\ (nearest.d2 = -1 \/ d2 < nearest.d2)

\* if (distance <= threshold && distance < nearestDistance) nearest = ...
CloserGroup(d2, nearest) ==
    d2 <= SnapDistance * SnapDistance /\ (nearest.d2 = -1 \/ d2 < nearest.d2)

NearestStep(group, clientX, clientY, nearest) ==
    LET d2 == Distance2(group, clientX, clientY)
    IN  IF CloserGroup(d2, nearest)
        THEN [fun |-> group.fun, good |-> group.good, d2 |-> d2]
        ELSE nearest

RECURSIVE NearestGroup(_, _, _, _)
NearestGroup(groups, clientX, clientY, nearest) ==
    IF groups = << >> THEN nearest
    ELSE LET next == NearestStep(Head(groups), clientX, clientY, nearest)
         IN  NearestGroup(Tail(groups), clientX, clientY, next)

\* Mutant of SnapResult: a missing grid does not end the resolution.
SnapResult_IgnoresGrid(dragging, clientX, clientY) ==
    LET dom     == DomGroups
        groups  == SnapGroups(dragging)
        dragged == draggedRects(dom, dragging)
        best    == BestOverlap(dom, groups, dragged, NoBest)
        nearest == NearestGroup(groups, clientX, clientY, NoNearest)
    IN  IF best # NoBest
        THEN [snap |-> [fun |-> best.fun, good |-> best.good], via |-> "overlap"]
        ELSE IF nearest = NoNearest
        THEN [snap |-> NoSnap, via |-> "none"]
        ELSE [snap |-> [fun |-> nearest.fun, good |-> nearest.good],
              via |-> "distance"]

\* The result of findSnapTarget with the step that decided it:
\* via is "nogrid", "overlap", "distance" or "none".
SnapResult(dragging, clientX, clientY) ==
    IF ~gridRef THEN [snap |-> NoSnap, via |-> "nogrid"]
    ELSE LET dom     == DomGroups
             groups  == SnapGroups(dragging)
             dragged == draggedRects(dom, dragging)
             best    == BestOverlap(dom, groups, dragged, NoBest)
             nearest == NearestGroup(groups, clientX, clientY, NoNearest)
         IN  IF best # NoBest
             THEN [snap |-> [fun |-> best.fun, good |-> best.good], via |-> "overlap"]
             ELSE IF nearest = NoNearest
             THEN [snap |-> NoSnap, via |-> "none"]
             ELSE [snap |-> [fun |-> nearest.fun, good |-> nearest.good],
                   via |-> "distance"]

findSnapTarget(dragging, clientX, clientY) == SnapResult(dragging, clientX, clientY).snap

----------------------------------------------------------------------------
(* Drag controller: pure parts *)

\* setDeckMovies((current) => current.map(...)) of applyMovieScores.
applyMovieScores(current, ids, fun, good) ==
    LET nextFun  == roundScore(clampScore(fun))
        nextGood == roundScore(clampScore(good))
        idSet    == Range(ids)
    IN  [ i \in 1..Len(current) |->
            IF current[i].id \in idSet
            THEN [current[i] EXCEPT !.fun = nextFun, !.good = nextGood]
            ELSE current[i] ]

\* Mutant of ScoreInRect: fun grows downwards.
ScoreInRect_FunNotInverted(rect, clientX, clientY) ==
    LET clampedX == Min2(Max2(clientX - rect.left, 0), rect.width)
        clampedY == Min2(Max2(clientY - rect.top, 0), rect.height)
        nextGood == clampScore((clampedX * 1000) \div rect.width)
        nextFun  == clampScore((clampedY * 1000) \div rect.height)
    IN  [fun |-> nextFun, good |-> nextGood]

\* Mutant of ScoreInRect: the axes are swapped back (fun along x, good along y).
ScoreInRect_SwappedAxes(rect, clientX, clientY) ==
    LET clampedX == Min2(Max2(clientX - rect.left, 0), rect.width)
        clampedY == Min2(Max2(clientY - rect.top, 0), rect.height)
        nextFun  == clampScore((clampedX * 1000) \div rect.width)
        nextGood == clampScore(1000 - (clampedY * 1000) \div rect.height)
    IN  [fun |-> nextFun, good |-> nextGood]

\* The score pair updateMoviePosition computes for a pointer position over a
\* grid whose getBoundingClientRect() is rect.  The quotients are exact for the
\* grids of the model (1000 is a multiple of their width and height).
ScoreInRect(rect, clientX, clientY) ==
    LET clampedX == Min2(Max2(clientX - rect.left, 0), rect.width)
        clampedY == Min2(Max2(clientY - rect.top, 0), rect.height)
        nextGood == clampScore((clampedX * 1000) \div rect.width)
        nextFun  == clampScore(1000 - (clampedY * 1000) \div rect.height)
    IN  [fun |-> nextFun, good |-> nextGood]

\* The score pair updateMoviePosition hands to applyMovieScores.
PointerScore(clientX, clientY) == ScoreInRect(GridRect, clientX, clientY)

updateMoviePosition(current, dragging, clientX, clientY) ==
    IF ~gridRef THEN current
    ELSE LET next == PointerScore(clientX, clientY)
         IN  applyMovieScores(current, dragging.ids, next.fun, next.good)

\* The PUT requests of persistMoviePositions, one per movie of moviesRef.current
\* named by ids; `deck` is the selectedDeckId of the closure.
persistMoviePositions(deck, ids, override) ==
    IF deck = NoDeck THEN << >>
    ELSE LET updates == Filter(moviesRef, Range(ids))
         IN  [ i \in 1..Len(updates) |->
                 [method |-> "PUT", deck |-> deck, id |-> updates[i].id,
                  fun   |-> IF override # NoSnap THEN override.fun ELSE updates[i].fun,
                  good  |-> IF override # NoSnap THEN override.good ELSE updates[i].good,
                  title |-> updates[i].title] ]

----------------------------------------------------------------------------
(* Inputs *)

Decks == { "d1", "d2" }

\* What GET /api/decks/:deckId answers for each deck.  The backend stores the
\* numbers of any request as they are (server/index.js:203-204, 237-239): the
\* movie of d2 was left at good = 7.45 by another client of the API.
ServerMovies(deck) ==
    IF deck = "d1"
    THEN << [id |-> "m1", title |-> "Alien",      fun |-> 700, good |-> 700],
            [id |-> "m2", title |-> "Brazil",     fun |-> 700, good |-> 700],
            [id |-> "m3", title |-> "Casablanca", fun |-> 300, good |-> 900] >>
    ELSE << [id |-> "m9", title |-> "Eraserhead", fun |-> 500, good |-> 745] >>

\* Pointer positions (clientX, clientY).
Pointers ==
    { [x |-> 370, y |-> 160],    \* the centre of the anchor at (7, 7)
      [x |-> 388, y |-> 160],    \* on the first title at (7, 7), 18 px from the anchor
      [x |-> 388, y |-> 165],    \* on the second title at (7, 7), beyond 18 px
      [x |-> 410, y |-> 160],    \* on the first title at (7, 7), 40 px from the anchor
      [x |-> 470, y |-> 360],    \* the centre of the anchor at (3, 9)
      [x |-> 485, y |-> 360],    \* on the title at (3, 9)
      [x |-> -10, y |-> 530] }   \* outside the grid

\* What the add-movie form holds when it is submitted.
\* What is typed into the title field: " dune" and "ERASERHEAD ".
FormTitles ==
    << << " ", "d", "u", "n", "e" >>,
       << "E", "R", "A", "S", "E", "R", "H", "E", "A", "D", " " >> >>
\* What the number fields hold: 7 and 7.4, 3 and 9, 7 and 7.45.
FormScores ==
    { [fun |-> 700, good |-> 740], [fun |-> 300, good |-> 900],
      [fun |-> 700, good |-> 745] }

\* The ids the backend's randomUUID() hands out: to movies, to decks.
NewIds == << "m4", "m5", "m6", "m7" >>
NewDeckIds == << "d4", "d5", "d6", "d7" >>

----------------------------------------------------------------------------
(* Backend: the tables of server/schema.sql and the statements and routes   *)
(* of server/index.js.  A route runs one statement at each await; the       *)
(* statements of requests in flight interleave.                             *)

\* The names of the decks.
DeckName(deck) == IF deck = "d1" THEN "Favourites" ELSE "Watchlist"

\* The database as the decks of ServerMovies are stored in it (the name column
\* of decks is kept beside the ids); foreign_keys
\* says whether the connection enforces the foreign keys of the schema.
InitialDb(foreign_keys) ==
    [decks       |-> Decks,
     deck_names  |-> { [id |-> d, name |-> DeckName(d)] : d \in Decks },
     movies      |-> UNION { { [id |-> ServerMovies(d)[i].id,
                                title |-> ServerMovies(d)[i].title] :
                                  i \in 1..Len(ServerMovies(d)) } : d \in Decks },
     deck_movies |-> UNION { { [deck_id |-> d, movie_id |-> ServerMovies(d)[i].id,
                                fun |-> ServerMovies(d)[i].fun,
                                good |-> ServerMovies(d)[i].good] :
                                  i \in 1..Len(ServerMovies(d)) } : d \in Decks },
     foreign_keys |-> foreign_keys]

\* SELECT id FROM decks WHERE id = ?
ensureDeckExists(d, deckId) == deckId \in d.decks

\* INSERT INTO decks (id, name, created_at, updated_at)
InsertDeck(d, deckId, name) ==
    [d EXCEPT !.decks = @ \cup { deckId },
              !.deck_names = @ \cup { [id |-> deckId, name |-> name] }]

\* UPDATE decks SET name = ?, updated_at = ? WHERE id = ?
UpdateDeckName(d, deckId, name) ==
    [d EXCEPT !.deck_names = { IF row.id = deckId THEN [row EXCEPT !.name = name]
                               ELSE row : row \in @ }]

\* INSERT INTO movies (id, title, created_at)
InsertMovie(d, movieId, title) ==
    [d EXCEPT !.movies = @ \cup { [id |-> movieId, title |-> title] }]

\* INSERT INTO deck_movies: fails on a missing deck or movie if the foreign
\* keys are enforced.
InsertDeckMovieFails(d, deckId, movieId) ==
    /\ d.foreign_keys
    /\ \/ deckId \notin d.decks
       \/ \A m \in d.movies : m.id # movieId

InsertDeckMovie(d, deckId, movieId, fun, good) ==
    [d EXCEPT !.deck_movies = @ \cup { [deck_id |-> deckId, movie_id |-> movieId,
                                        fun |-> fun, good |-> good] }]

\* DELETE FROM deck_movies WHERE deck_id = ?
DeleteDeckMovies(d, deckId) ==
    [d EXCEPT !.deck_movies = { row \in @ : row.deck_id # deckId }]

\* DELETE FROM deck_movies WHERE deck_id = ? AND movie_id = ?
DeleteDeckMovie(d, deckId, movieId) ==
    [d EXCEPT !.deck_movies =
        { row \in @ : ~(row.deck_id = deckId /\ row.movie_id = movieId) }]

\* DELETE FROM decks WHERE id = ?  (ON DELETE CASCADE if enforced)
DeleteDeckRow(d, deckId) ==
    [d EXCEPT !.decks = @ \ { deckId },
              !.deck_names = { row \in @ : row.id # deckId },
              !.deck_movies = IF d.foreign_keys
                              THEN { row \in @ : row.deck_id # deckId }
                              ELSE @]

\* DELETE FROM movies WHERE id NOT IN (SELECT movie_id FROM deck_movies)
DeleteOrphanMovies(d) ==
    [d EXCEPT !.movies = { m \in @ : \E row \in d.deck_movies : row.movie_id = m.id }]

\* UPDATE movies SET title = ? WHERE id = ?
UpdateMovieTitle(d, movieId, title) ==
    [d EXCEPT !.movies = { IF m.id = movieId THEN [m EXCEPT !.title = title] ELSE m :
                             m \in @ }]

\* UPDATE deck_movies SET fun = ?, good = ? WHERE deck_id = ? AND movie_id = ?
UpdateDeckMovie(d, deckId, movieId, fun, good) ==
    [d EXCEPT !.deck_movies =
        { IF row.deck_id = deckId /\ row.movie_id = movieId
          THEN [row EXCEPT !.fun = fun, !.good = good] ELSE row : row \in @ }]

\* The rows of SELECT ... FROM deck_movies dm JOIN movies m ... as a set.
JoinedRows(d, deckId) ==
    { [id |-> m.id, title |-> m.title, fun |-> row.fun, good |-> row.good] :
        << row, m >> \in { pair \in d.deck_movies \X d.movies :
                             /\ pair[1].deck_id = deckId
                             /\ pair[1].movie_id = pair[2].id } }

\* ORDER BY m.title COLLATE NOCASE.
RECURSIVE OrderByTitle(_)
OrderByTitle(rows) ==
    IF rows = { } THEN << >>
    ELSE LET first == CHOOSE r \in rows :
                          \A q \in rows : NoCaseRank(r.title) <= NoCaseRank(q.title)
         IN  << first >> \o OrderByTitle(rows \ { first })

SelectDeckMovies(d, deckId) == OrderByTitle(JoinedRows(d, deckId))

\* The requests the backend receives: route, parameters and body (title and
\* name trimmed); isNaN says that Number(req.body?.fun) or Number(req.body?.good)
\* is NaN.
ServerInputs ==
    { [route |-> "GET", deck |-> "d1", movie |-> "", title |-> "", name |-> "",
       fun |-> 0, good |-> 0, isNaN |-> FALSE] }
    \cup { [route |-> "POST deck", deck |-> "", movie |-> "", title |-> "",
            name |-> n, fun |-> 0, good |-> 0, isNaN |-> FALSE] :
              n \in { "Noir", "" } }
    \cup { [route |-> "PUT deck", deck |-> d, movie |-> "", title |-> "",
            name |-> n, fun |-> 0, good |-> 0, isNaN |-> FALSE] :
              d \in { "d1", "d3" }, n \in { "Noir", "" } }
    \cup { [route |-> "DELETE deck", deck |-> d, movie |-> "", title |-> "",
            name |-> "", fun |-> 0, good |-> 0, isNaN |-> FALSE] :
              d \in { "d1", "d2", "d3" } }
    \cup { [route |-> "DELETE movie", deck |-> "d1", movie |-> "m1", title |-> "",
            name |-> "", fun |-> 0, good |-> 0, isNaN |-> FALSE] }
    \cup { [route |-> "POST", deck |-> "d1", movie |-> "", title |-> t, name |-> "",
            fun |-> f, good |-> 700, isNaN |-> FALSE] :
              t \in { "Dune", "" }, f \in { 700, 1200 } }
    \cup { [route |-> "POST", deck |-> d, movie |-> "", title |-> "Dune", name |-> "",
            fun |-> 0, good |-> 700, isNaN |-> nan] :
              << d, nan >> \in { << "d1", TRUE >>, << "d3", FALSE >> } }
    \cup { [route |-> "PUT", deck |-> "d1", movie |-> "m1", title |-> "Alien",
            name |-> "", fun |-> f, good |-> 700, isNaN |-> FALSE] :
              f \in { -50, 730 } }
    \cup { [route |-> "PUT", deck |-> d, movie |-> "m1", title |-> "Alien",
            name |-> "", fun |-> 0, good |-> 700, isNaN |-> nan] :
              << d, nan >> \in { << "d1", TRUE >>, << "d3", FALSE >> } }

\* Mutant of BadRequest: no request is turned away for its body.
BadRequest_Never(input) == FALSE

\* The body is rejected with 400 before the route's first await: a deck
\* without name, a movie without title, scores that are not numbers.
BadRequest(input) ==
    \/ input.route \in { "POST deck", "PUT deck" } /\ input.name = ""
    \/ input.route = "POST" /\ input.title = ""
    \/ input.route \in { "POST", "PUT" } /\ input.isNaN

\* What a request has read from the database so far.
NoRows == << >>

\* The answer of a route.
Response(r, status, movies) ==
    [n |-> r.n, route |-> r.route, deck |-> r.deck, movie |-> r.movie,
     status |-> status, movies |-> movies]

\* db.js after the module has loaded: the remote client is the active one if
\* TURSO_DATABASE_URL is set.
InitialClients(remoteUrl) ==
    [remoteClient  |-> remoteUrl,
     activeClient  |-> IF remoteUrl THEN "remote" ELSE "local",
     hasFallenBack |-> ~remoteUrl]

ServerIdle ==
    /\ db = InitialDb(TRUE)
    /\ requests = { }
    /\ nRequests = 0
    /\ clients = InitialClients(FALSE)
    /\ executing = { }
    /\ nCalls = 0

----------------------------------------------------------------------------
(* State machine *)

\* A failed commit, which leaves its notice, counts as an event beside the drag.
RequestsLeft ==
    nAdds + nRemoves + nSelects + (IF error = NoError THEN 0 ELSE 1) < budget

counters == << nSessions, nMoves, nAdds, nRemoves, nSelects >>

\* Where the movies named by ids are in `movies`, and whether they are all the
\* movies of that coordinate (history: read by no action).
OriginOf(movies, ids) ==
    LET mine == { i \in 1..Len(movies) : movies[i].id \in Range(ids) }
    IN  IF mine = { } THEN NoOrigin
        ELSE LET first == movies[CHOOSE i \in mine : \A j \in mine : i <= j]
                 f     == roundScore(clampScore(first.fun))
                 g     == roundScore(clampScore(first.good))
             IN  [fun |-> f, good |-> g,
                  all |-> \A i \in 1..Len(movies) :
                             ( roundScore(clampScore(movies[i].fun)) = f
                               /\ roundScore(clampScore(movies[i].good)) = g )
                             <=> i \in mine]

\* The list after an earlier session has dropped m3 onto the group at (7, 7).
SnappedMovies == applyMovieScores(ServerMovies("d1"), << "m3" >>, 700, 700)

\* The session a pointer-down on the anchor at (3, 9) starts, and its pointer.
PressedDrag == [type |-> "group", key |-> GroupKey(300, 900), ids |-> << "m3" >>]
PressedAt == [x |-> 470, y |-> 360]

\* The deck list as loadDecks stored it: the backend counts each deck's
\* associations (server/index.js:67-92).
InitialDecks == [ deck \in Decks |-> Len(ServerMovies(deck)) ]

\* The application on deck d1, rendered and with its effects flushed.
Shown(movies, drag, pointer) ==
    /\ deckMovies = movies
    /\ selectedDeckId = "d1"
    /\ draggingGroup = drag
    /\ gridRef = TRUE
    /\ moviesRef = movies
    /\ lastPointerRef = pointer
    /\ rendered = Rendering(movies, drag, "d1")
    /\ listener = [drag |-> drag, deck |-> "d1"]
    /\ effectsPending = FALSE
    /\ addReq = { }
    /\ removeReq = { }
    /\ sent = << >>
    /\ last = NoLast
    /\ origin = IF drag = NoDrag THEN NoOrigin ELSE OriginOf(movies, drag.ids)
    /\ out = << >>
    /\ saveReq = 0
    /\ error = NoError
    /\ decks = InitialDecks
    /\ staleLoads = { }
    /\ decksReq = 0
    /\ budget = MaxRequests
    /\ nSessions = 0 /\ nMoves = 0 /\ nAdds = 0 /\ nRemoves = 0
    /\ ServerIdle

Init ==
    \* The deck as loaded, nothing in flight.
    \/ Shown(ServerMovies("d1"), NoDrag, NoPointer) /\ loadReq = NoDeck /\ nSelects = 0
          /\ loading = FALSE
    \* The selection has gone to another deck and come back, so that a load of
    \* the deck on screen is in flight.
    \/ Shown(ServerMovies("d1"), NoDrag, NoPointer) /\ loadReq = "d1"
          /\ nSelects = MaxRequests /\ loading = TRUE
    \* The same, after an earlier session has dropped m3 onto the group at
    \* (7, 7) and the load was answered before that session's commit arrived.
    \/ Shown(SnappedMovies, NoDrag, NoPointer) /\ loadReq = "d1"
          /\ nSelects = MaxRequests /\ loading = TRUE
    \* A pointer is down on the anchor at (3, 9): its session is in progress,
    \* the deck's load has been answered.
    \/ Shown(ServerMovies("d1"), PressedDrag, PressedAt) /\ loadReq = NoDeck
          /\ nSelects = MaxRequests /\ loading = FALSE

\* The body shared by handlePointerDown and handleLabelPointerDown.
StartDrag(drag, p) ==
    /\ draggingGroup' = drag
    /\ lastPointerRef' = p
    /\ deckMovies' = updateMoviePosition(deckMovies, drag, p.x, p.y)
    /\ sent' = << >>
    /\ last' = NoLast
    /\ origin' = OriginOf(deckMovies, drag.ids)
    /\ nSessions' = nSessions + 1
    /\ nMoves' = 0
    /\ UNCHANGED << server, budget, sidebar, saveReq, error, selectedDeckId, gridRef, moviesRef, rendered, listener,
                    effectsPending, loadReq, addReq, removeReq, out,
                    nAdds, nRemoves, nSelects >>

\* onPointerDown of a .movie-point, the pointer on the anchor itself.
HandlePointerDown ==
    /\ nSessions < MaxSessions
    /\ LET dom == DomGroups
       IN  \E g \in 1..Len(dom), p \in Pointers :
            /\ Inside(p, AnchorRect(dom[g]))
            /\ ~Inside(p, LabelRect(dom[g]))
            /\ StartDrag([type |-> "group", key |-> dom[g].key, ids |-> dom[g].ids], p)

\* onPointerDownCapture of a title ([data-movie-id]).
HandleLabelPointerDown ==
    /\ nSessions < MaxSessions
    /\ LET dom == DomGroups
       IN  \E g \in 1..Len(dom), p \in Pointers :
            \E i \in 1..Len(dom[g].items) :
                /\ Inside(p, TitleRect(dom[g], i))
                /\ StartDrag([type |-> "single", key |-> << dom[g].items[i].id >>,
                              ids |-> << dom[g].items[i].id >>], p)

\* The window's pointermove listener.
HandlePointerMove ==
    \E p \in Pointers :
        /\ listener.drag # NoDrag
        /\ nMoves < MaxMoves
        /\ lastPointerRef' = p
        /\ deckMovies' = updateMoviePosition(deckMovies, listener.drag, p.x, p.y)
        /\ sent' = << >>
        /\ last' = NoLast
        /\ nMoves' = nMoves + 1
        /\ UNCHANGED << server, budget, sidebar, saveReq, error, selectedDeckId, draggingGroup, gridRef, moviesRef, rendered,
                        listener, effectsPending, loadReq, addReq, removeReq,
                        origin, out, nSessions, nAdds, nRemoves, nSelects >>

\* Mutant of DragListeners: no listener is registered for pointercancel.
DragListeners_NoCancel ==
    [pointermove |-> "handlePointerMove", pointerup |-> "handlePointerUp",
     pointercancel |-> "none"]

\* window.addEventListener(type, handler) of the drag effect.
DragListeners ==
    [pointermove |-> "handlePointerMove", pointerup |-> "handlePointerUp",
     pointercancel |-> "handlePointerUp"]

\* The events that end a gesture.
ReleaseEvents == { "pointerup", "pointercancel" }

\* What handlePointerUp leaves behind: the list, the requests it sends, the
\* session, and what the Snap Resolver answered.
ReleaseOutcome ==
    LET drag       == listener.drag
        lastPtr    == lastPointerRef
        result     == IF lastPtr # NoPointer
                      THEN SnapResult(drag, lastPtr.x, lastPtr.y)
                      ELSE [snap |-> NoSnap, via |-> "none"]
        snapTarget == result.snap
    IN  IF snapTarget # NoSnap
        THEN [movies  |-> applyMovieScores(deckMovies, drag.ids,
                                           snapTarget.fun, snapTarget.good),
              sent    |-> persistMoviePositions(listener.deck, drag.ids, snapTarget),
              session |-> NoDrag, snap |-> snapTarget, via |-> result.via]
        ELSE [movies  |-> deckMovies,
              sent    |-> persistMoviePositions(listener.deck, drag.ids, NoSnap),
              session |-> NoDrag, snap |-> snapTarget, via |-> result.via]

\* What the window's listener for an event of `type` leaves behind while the
\* drag effect's listeners are attached.
Dispatch(type) ==
    IF DragListeners[type] = "handlePointerUp"
    THEN ReleaseOutcome
    ELSE [movies |-> deckMovies, sent |-> << >>, session |-> draggingGroup,
          snap |-> NoSnap, via |-> "none"]

\* handlePointerUp, the window's listener for pointerup and for pointercancel.
HandlePointerUp ==
    \E type \in ReleaseEvents :
        /\ listener.drag # NoDrag
        /\ DragListeners[type] = "handlePointerUp"
        /\ LET outcome == Dispatch(type)
           IN  /\ deckMovies' = outcome.movies
               /\ sent' = outcome.sent
               /\ saveReq' = IF outcome.sent # << >>
                             THEN Min2(saveReq + 1, MaxSaves) ELSE saveReq
               /\ draggingGroup' = outcome.session
               /\ last' = [ev |-> "up", drag |-> listener.drag,
                           snap |-> outcome.snap, via |-> outcome.via]
        /\ UNCHANGED << server, budget, sidebar, error, selectedDeckId, gridRef, moviesRef, lastPointerRef,
                        rendered, listener, effectsPending, loadReq, addReq,
                        removeReq, origin, out, counters >>

\* React commits a render of the current state: the DOM and the closures.
Render ==
    /\ rendered.mounted
    /\ ~effectsPending
    /\ \/ rendered.movies # deckMovies
       \/ rendered.drag # draggingGroup
       \/ rendered.deck # selectedDeckId
    /\ rendered' = Rendering(deckMovies, draggingGroup, selectedDeckId)
    /\ effectsPending' = TRUE
    /\ sent' = << >>
    /\ last' = NoLast
    /\ UNCHANGED << server, budget, sidebar, saveReq, error, deckMovies, selectedDeckId, draggingGroup, gridRef, moviesRef,
                    lastPointerRef, listener, loadReq, addReq, removeReq,
                    origin, out, counters >>

\* The loads whose isActive the clean-up of the deck load effect has cleared.
Abandoned == IF loadReq # NoDeck THEN staleLoads \cup { loadReq } ELSE staleLoads

\* The passive effects of the last render: the moviesRef mirror (111-113), the
\* deck list load (131-134: loadDecks changes with selectedDeckId), the deck
\* load (136-182) and the drag listeners (655-694); after an unmount, their
\* clean-ups.
FlushEffects ==
    /\ effectsPending
    /\ effectsPending' = FALSE
    /\ IF rendered.mounted
       THEN /\ moviesRef' = rendered.movies
            /\ listener' = [drag |-> rendered.drag, deck |-> rendered.deck]
            /\ IF rendered.deck # listener.deck
               THEN /\ loadReq' = rendered.deck
                    /\ staleLoads' = Abandoned
                    /\ decksReq' = Min2(decksReq + 1, MaxDeckLoads)
                    /\ loading' = TRUE
                    /\ error' = NoError
               ELSE UNCHANGED << loadReq, staleLoads, decksReq, loading, error >>
       ELSE /\ moviesRef' = moviesRef
            /\ listener' = [drag |-> NoDrag, deck |-> listener.deck]
            /\ loadReq' = NoDeck
            /\ staleLoads' = Abandoned
            /\ UNCHANGED << decksReq, loading, error >>
    /\ sent' = << >>
    /\ last' = NoLast
    /\ UNCHANGED << server, budget, decks, saveReq, deckMovies, selectedDeckId, draggingGroup, gridRef, lastPointerRef,
                    rendered, addReq, removeReq, origin, out, counters >>

\* The component is unmounted: the grid's ref is detached with the DOM, the
\* clean-ups of the effects run later.
Unmount ==
    /\ rendered.mounted
    /\ ~effectsPending
    /\ listener.drag # NoDrag
    /\ RequestsLeft
    /\ gridRef' = FALSE
    /\ rendered' = [mounted |-> FALSE, movies |-> << >>, groups |-> << >>,
                    drag |-> NoDrag, deck |-> rendered.deck]
    /\ effectsPending' = TRUE
    /\ sent' = << >>
    /\ last' = NoLast
    /\ UNCHANGED << server, budget, sidebar, saveReq, error, deckMovies, selectedDeckId, draggingGroup, moviesRef,
                    lastPointerRef, listener, loadReq, addReq, removeReq,
                    origin, out, counters >>

\* The constraint validation of <input type="number" min={0} max={10}
\* step={0.1}>: no range underflow, no range overflow, no step mismatch.
ValidNumber(value) == 0 <= value /\ value <= 1000 /\ value % 10 = 0

\* The constraint validation of the movie form, which has no noValidate: the
\* browser fires the submit event only if every control is valid; the title
\* field is `required` (any character makes it valid).
SubmitEventFires(typed, score) ==
    /\ typed # << >>
    /\ ValidNumber(score.fun)
    /\ ValidNumber(score.good)

\* The POST of handleSubmit; `id` is the id the backend will give the movie.
SubmitBody(typed, score, deck, id) ==
    [method |-> "POST", deck |-> deck, id |-> id,
     fun |-> clampScore(score.fun), good |-> clampScore(score.good),
     title |-> Text(formatTitle(trim(typed)))]

\* The form is submitted and handleSubmit runs up to the await: the POST leaves
\* with the form's values.
HandleSubmit ==
    \E score \in FormScores :
        LET body == SubmitBody(FormTitles[nAdds + 1], score, rendered.deck,
                               NewIds[nAdds + 1])
        IN  /\ nAdds < Len(FormTitles)
            /\ rendered.mounted
            /\ SubmitEventFires(FormTitles[nAdds + 1], score)
            /\ trim(FormTitles[nAdds + 1]) # << >>
            /\ rendered.deck # NoDeck
            /\ RequestsLeft
            /\ sent' = << body >>
            /\ addReq' = addReq \cup { body }
            /\ nAdds' = nAdds + 1
            /\ loading' = TRUE
            /\ error' = NoError
            /\ last' = NoLast
            /\ UNCHANGED << server, budget, decks, staleLoads, decksReq, saveReq, deckMovies, selectedDeckId, draggingGroup, gridRef,
                            moviesRef, lastPointerRef, rendered, listener,
                            effectsPending, loadReq, removeReq, origin, out,
                            nSessions, nMoves, nRemoves, nSelects >>

\* handleSubmit after the await: the backend answers 201 with the movie as it
\* stored it (server/index.js:231-233), which is appended to the list, and the
\* deck of the closure counts one movie more; or the request fails.
SubmitResponse ==
    \E body \in addReq, ok \in BOOLEAN :
        /\ ok \/ RequestsLeft
        /\ addReq' = addReq \ { body }
        /\ IF ok
           THEN /\ deckMovies' = Append(deckMovies,
                                        [id |-> body.id, title |-> body.title,
                                         fun |-> body.fun, good |-> body.good])
                /\ decks' = [decks EXCEPT ![body.deck] = @ + 1]
                /\ error' = error
           ELSE /\ error' = AddFailed
                /\ UNCHANGED << deckMovies, decks >>
        /\ loading' = FALSE
        /\ sent' = << >>
        /\ last' = NoLast
        /\ UNCHANGED << server, budget, staleLoads, decksReq, saveReq, selectedDeckId, draggingGroup, gridRef, moviesRef,
                        lastPointerRef, rendered, listener, effectsPending, loadReq,
                        removeReq, origin, out, counters >>

\* removeMovie up to the await: the DELETE leaves.
RemoveMovie ==
    \E i \in 1..Len(rendered.movies) :
        /\ rendered.mounted
        /\ rendered.deck # NoDeck
        /\ RequestsLeft
        /\ removeReq' = removeReq \cup { [id |-> rendered.movies[i].id,
                                           deck |-> rendered.deck,
                                           n |-> nRemoves + 1] }
        /\ sent' = << [method |-> "DELETE", deck |-> rendered.deck,
                       id |-> rendered.movies[i].id, fun |-> 0, good |-> 0,
                       title |-> rendered.movies[i].title] >>
        /\ nRemoves' = nRemoves + 1
        /\ error' = NoError
        /\ last' = NoLast
        /\ UNCHANGED << server, budget, sidebar, saveReq, deckMovies, selectedDeckId, draggingGroup, gridRef, moviesRef,
                        lastPointerRef, rendered, listener, effectsPending, loadReq,
                        addReq, origin, out, nSessions, nMoves, nAdds, nSelects >>

\* removeMovie after the await: the movie leaves the list and the deck of the
\* closure counts one movie less; or the request fails.
RemoveResponse ==
    \E req \in removeReq, ok \in BOOLEAN :
        /\ ok \/ RequestsLeft
        /\ removeReq' = removeReq \ { req }
        /\ IF ok
           THEN /\ deckMovies' = Filter(deckMovies,
                                        { m.id : m \in Range(deckMovies) } \ { req.id })
                /\ decks' = [decks EXCEPT ![req.deck] = Max2(0, @ - 1)]
                /\ error' = error
           ELSE /\ error' = RemoveFailed
                /\ UNCHANGED << deckMovies, decks >>
        /\ sent' = << >>
        /\ last' = NoLast
        /\ UNCHANGED << server, budget, loading, staleLoads, decksReq, saveReq, selectedDeckId, draggingGroup, gridRef, moviesRef,
                        lastPointerRef, rendered, listener, effectsPending, loadReq,
                        addReq, origin, out, counters >>

\* setSelectedDeckId(deck.id): onClick of a deck button; handleCreateDeck and
\* handleDeleteDeck change the selection the same way after their await.
SelectDeck ==
    \E deck \in Decks :
        /\ rendered.mounted
        /\ deck # selectedDeckId
        /\ RequestsLeft
        /\ selectedDeckId' = deck
        /\ nSelects' = nSelects + 1
        /\ sent' = << >>
        /\ last' = NoLast
        /\ UNCHANGED << server, budget, sidebar, saveReq, error, deckMovies, draggingGroup, gridRef, moviesRef, lastPointerRef,
                        rendered, listener, effectsPending, loadReq, addReq, removeReq,
                        origin, out, nSessions, nMoves, nAdds, nRemoves >>

\* loadDeck after the await, still active: setDeckMovies(data.movies), or
\* the notice of the failed request; the syncing flag is cleared.
LoadResponse ==
    \E ok \in BOOLEAN :
        /\ loadReq # NoDeck
        /\ ok \/ RequestsLeft
        /\ loadReq' = NoDeck
        /\ deckMovies' = IF ok THEN ServerMovies(loadReq) ELSE deckMovies
        /\ error' = IF ok THEN error ELSE LoadFailed
        /\ loading' = FALSE
        /\ sent' = << >>
        /\ last' = NoLast
        /\ UNCHANGED << server, budget, decks, staleLoads, decksReq, saveReq, selectedDeckId, draggingGroup, gridRef, moviesRef, lastPointerRef,
                    rendered, listener, effectsPending, addReq, removeReq,
                    origin, out, counters >>

\* loadDeck after the await when the effect's clean-up has cleared isActive:
\* the answer or the failure of the request is dropped.
StaleLoadResponse ==
    \E deck \in staleLoads :
        /\ staleLoads' = staleLoads \ { deck }
        /\ sent' = << >>
        /\ last' = NoLast
        /\ UNCHANGED << server, budget, decks, loading, decksReq, saveReq, error,
                        deckMovies, selectedDeckId, draggingGroup, gridRef, moviesRef,
                        lastPointerRef, rendered, listener, effectsPending, loadReq,
                        addReq, removeReq, origin, out, counters >>

\* The movie counts GET /api/decks may answer: the backend has the deck's
\* movies, without the removes and with the adds it has carried out so far.
ServerCounts ==
    { counts \in [Decks -> 0..(MaxListLen + MaxDeckRequests)] :
        \A deck \in Decks :
            /\ counts[deck] >= Max2(0, InitialDecks[deck] - nRemoves)
            /\ counts[deck] <= InitialDecks[deck] + nAdds }

\* loadDecks after the await: setDecks(data.decks), or the notice of the failed
\* request; the syncing flag is cleared.
DecksResponse ==
    \E ok \in BOOLEAN, counts \in ServerCounts :
        /\ decksReq > 0
        /\ ok \/ RequestsLeft
        /\ decksReq' = decksReq - 1
        /\ decks' = IF ok THEN counts ELSE decks
        /\ error' = IF ok THEN error ELSE DecksFailed
        /\ loading' = FALSE
        /\ sent' = << >>
        /\ last' = NoLast
        /\ UNCHANGED << server, budget, staleLoads, saveReq, deckMovies, selectedDeckId,
                        draggingGroup, gridRef, moviesRef, lastPointerRef, rendered,
                        listener, effectsPending, loadReq, addReq, removeReq,
                        origin, out, counters >>

\* Mutant of SaveResponse: a settled commit puts the backend's scores back.
SaveResponse_Reloads ==
    \E ok \in BOOLEAN :
        /\ saveReq > 0
        /\ ok \/ RequestsLeft
        /\ saveReq' = saveReq - 1
        /\ error' = IF ok THEN error ELSE SaveFailed
        /\ deckMovies' = ServerMovies(selectedDeckId)
        /\ sent' = << >>
        /\ last' = IF ok THEN NoLast ELSE [NoLast EXCEPT !.ev = "failed"]
        /\ UNCHANGED << server, budget, sidebar, selectedDeckId, draggingGroup, gridRef, moviesRef,
                        lastPointerRef, rendered, listener, effectsPending, loadReq,
                        addReq, removeReq, origin, out, counters >>

\* Mutant of SaveResponse: a rejected commit is queued again.
SaveResponse_Retries ==
    \E ok \in BOOLEAN :
        /\ saveReq > 0
        /\ ok \/ RequestsLeft
        /\ saveReq' = IF ok THEN saveReq - 1 ELSE saveReq
        /\ error' = IF ok THEN error ELSE SaveFailed
        /\ sent' = << >>
        /\ last' = IF ok THEN NoLast ELSE [NoLast EXCEPT !.ev = "failed"]
        /\ UNCHANGED << server, budget, sidebar, deckMovies, selectedDeckId, draggingGroup, gridRef, moviesRef,
                        lastPointerRef, rendered, listener, effectsPending, loadReq,
                        addReq, removeReq, origin, out, counters >>

\* persistMoviePositions after the await: Promise.all of the PUT requests has
\* settled.  A rejection sets the error notice, a fulfilment does nothing.
SaveResponse ==
    \E ok \in BOOLEAN :
        /\ saveReq > 0
        /\ ok \/ RequestsLeft
        /\ saveReq' = saveReq - 1
        /\ error' = IF ok THEN error ELSE SaveFailed
        /\ sent' = << >>
        /\ last' = IF ok THEN NoLast ELSE [NoLast EXCEPT !.ev = "failed"]
        /\ UNCHANGED << server, budget, sidebar, deckMovies, selectedDeckId, draggingGroup, gridRef, moviesRef,
                        lastPointerRef, rendered, listener, effectsPending, loadReq,
                        addReq, removeReq, origin, out, counters >>

Next ==
    \/ HandlePointerDown
    \/ HandleLabelPointerDown
    \/ HandlePointerMove
    \/ HandlePointerUp
    \/ Render
    \/ FlushEffects
    \/ Unmount
    \/ HandleSubmit
    \/ SubmitResponse
    \/ RemoveMovie
    \/ RemoveResponse
    \/ SelectDeck
    \/ LoadResponse
    \/ DecksResponse
    \/ SaveResponse

Spec == Init /\ [][Next]_vars

\* The deck list, the selection and the movie list on their own: deck d1 is
\* loaded and on screen, nothing is in flight; decks are selected and movies
\* added and removed, and the requests are answered in any order.
InitDecks ==
    /\ deckMovies = ServerMovies("d1")
    /\ selectedDeckId = "d1"
    /\ draggingGroup = NoDrag
    /\ gridRef = TRUE
    /\ moviesRef = deckMovies
    /\ lastPointerRef = NoPointer
    /\ rendered = Rendering(deckMovies, NoDrag, "d1")
    /\ listener = [drag |-> NoDrag, deck |-> "d1"]
    /\ effectsPending = FALSE
    /\ loadReq = NoDeck
    /\ addReq = { }
    /\ removeReq = { }
    /\ sent = << >>
    /\ last = NoLast
    /\ origin = NoOrigin
    /\ out = << >>
    /\ saveReq = 0
    /\ error = NoError
    /\ decks = InitialDecks
    /\ loading = FALSE
    /\ staleLoads = { }
    /\ decksReq = 0
    /\ budget = MaxDeckRequests
    /\ nSessions = 0 /\ nMoves = 0 /\ nAdds = 0 /\ nRemoves = 0 /\ nSelects = 0
    /\ ServerIdle

NextDecks ==
    \/ Render
    \/ FlushEffects
    \/ HandleSubmit
    \/ SubmitResponse
    \/ RemoveMovie
    \/ RemoveResponse
    \/ SelectDeck
    \/ LoadResponse
    \/ StaleLoadResponse
    \/ DecksResponse

SpecDecks == InitDecks /\ [][NextDecks]_vars

\* The Drag Controller and the completion of its commits on their own: a
\* session is in progress on a loaded deck, and nothing but pointer events,
\* renders, effects and commit completions happens.
InitCommit ==
    Shown(ServerMovies("d1"), PressedDrag, PressedAt) /\ loadReq = NoDeck
        /\ nSelects = 0 /\ loading = FALSE

NextCommit ==
    \/ HandlePointerDown
    \/ HandleLabelPointerDown
    \/ HandlePointerMove
    \/ HandlePointerUp
    \/ Render
    \/ FlushEffects
    \/ SaveResponse

SpecCommit == InitCommit /\ [][NextCommit]_vars

----------------------------------------------------------------------------
(* The Grouping Engine on its own: groupedMovies applied to movie lists     *)
(* as a deck load may deliver them (the backend stores scores as given).    *)

SampleScores ==
    { [fun |-> 700,  good |-> 700],  [fun |-> 704,  good |-> 700],
      [fun |-> 705,  good |-> 700],  [fun |-> 710,  good |-> 700],
      [fun |-> 700,  good |-> 710],  [fun |-> 1200, good |-> -50],
      [fun |-> 1000, good |-> 0],    [fun |-> 100,  good |-> 1000],
      [fun |-> 1000, good |-> 100],  [fun |-> 0,    good |-> 0],
      [fun |-> -3,   good |-> 4],    [fun |-> 300,  good |-> 900] }

ListIds == << "m1", "m2", "m3", "m4" >>

ListTitles == << "Alien", "Brazil", "Casablanca", "Dune" >>

MovieLists ==
    { [ i \in 1..n |-> [id |-> ListIds[i], title |-> ListTitles[i],
                        fun |-> scores[i].fun, good |-> scores[i].good] ] :
        n \in 0..MaxListLen, scores \in [1..MaxListLen -> SampleScores] }

ClientIdle ==
    /\ selectedDeckId = "d1"
    /\ draggingGroup = NoDrag
    /\ gridRef = TRUE
    /\ lastPointerRef = NoPointer
    /\ listener = [drag |-> NoDrag, deck |-> "d1"]
    /\ effectsPending = FALSE
    /\ loadReq = NoDeck
    /\ addReq = { }
    /\ removeReq = { }
    /\ sent = << >>
    /\ last = NoLast
    /\ origin = NoOrigin
    /\ saveReq = 0
    /\ error = NoError
    /\ decks = InitialDecks
    /\ loading = FALSE
    /\ staleLoads = { }
    /\ decksReq = 0
    /\ budget = MaxRequests
    /\ nSessions = 0 /\ nMoves = 0 /\ nAdds = 0 /\ nRemoves = 0 /\ nSelects = 0

Idle == ClientIdle /\ ServerIdle

InitGroups ==
    /\ deckMovies \in MovieLists
    /\ moviesRef = deckMovies
    /\ rendered = Rendering(deckMovies, NoDrag, "d1")
    /\ out = << >>
    /\ Idle

\* The useMemo of groupedMovies is evaluated for the list.
EvalGroupedMovies ==
    /\ out = << >>
    /\ out' = << groupedMovies(deckMovies) >>
    /\ UNCHANGED << server, budget, sidebar, saveReq, error, deckMovies, selectedDeckId, draggingGroup, gridRef, moviesRef,
                    lastPointerRef, rendered, listener, effectsPending, loadReq,
                    addReq, removeReq, sent, last, origin, counters >>

NextGroups == EvalGroupedMovies

SpecGroups == InitGroups /\ [][NextGroups]_vars

----------------------------------------------------------------------------
(* The sort of a group's items on its own: groupedMovies applied to lists   *)
(* whose titles come in any order and in either case.                       *)

SortTitles == { "alien", "Alien", "brazil", "Brazil", "Casablanca" }

SortScores ==
    { [fun |-> 700, good |-> 700], [fun |-> 704, good |-> 700],
      [fun |-> 300, good |-> 900] }

SortLists ==
    { [ i \in 1..n |-> [id |-> ListIds[i], title |-> titles[i],
                        fun |-> scores[i].fun, good |-> scores[i].good] ] :
        n \in 0..MaxListLen, titles \in [1..MaxListLen -> SortTitles],
        scores \in [1..MaxListLen -> SortScores] }

InitSort ==
    /\ deckMovies \in SortLists
    /\ moviesRef = deckMovies
    /\ rendered = Rendering(deckMovies, NoDrag, "d1")
    /\ out = << >>
    /\ Idle

NextSort == EvalGroupedMovies

SpecSort == InitSort /\ [][NextSort]_vars

----------------------------------------------------------------------------
(* The overlap test on its own: overlapRatio and the threshold test applied *)
(* to pairs of rectangles.                                                  *)

SampleRects ==
    { [left |-> l, top |-> 0, width |-> w, height |-> h] :
        l \in { 0, 10 }, w \in { 0, 79, 80, 100 }, h \in { 0, 1, 5 } }

InitOverlap ==
    /\ deckMovies = ServerMovies("d1")
    /\ moviesRef = deckMovies
    /\ rendered = Rendering(deckMovies, NoDrag, "d1")
    /\ \E a \in SampleRects, b \in SampleRects : out = << [a |-> a, b |-> b] >>
    /\ Idle

\* One (dragged rectangle, candidate rectangle) pair is evaluated with no best
\* match so far.
EvalOverlap ==
    /\ Len(out) = 1
    /\ out' = Append(out, [ratio |-> overlapRatio(out[1].a, out[1].b),
                           match |-> BetterOverlap(overlapRatio(out[1].a, out[1].b),
                                                   NoBest)])
    /\ UNCHANGED << server, budget, sidebar, saveReq, error, deckMovies, selectedDeckId, draggingGroup, gridRef, moviesRef,
                    lastPointerRef, rendered, listener, effectsPending, loadReq,
                    addReq, removeReq, sent, last, origin, counters >>

NextOverlap == EvalOverlap

SpecOverlap == InitOverlap /\ [][NextOverlap]_vars

----------------------------------------------------------------------------
(* The pointer mapping on its own: the score updateMoviePosition writes     *)
(* for two pointer positions over one grid rectangle.  The grids are chosen *)
(* so that no position maps to a half-way case of Math.round.               *)

SampleGrids ==
    { [left |-> l, top |-> 10, width |-> w, height |-> h] :
        l \in { 0, 20 }, w \in { 100, 250 }, h \in { 100, 500 } }

\* Pointer offsets from the grid's left (top) edge along an axis of length size.
Offsets(size) == { -7, 0, 1, 2, size \div 2, size \div 2 + 1, size, size + 9 }

InitPointer ==
    /\ deckMovies = ServerMovies("d1")
    /\ moviesRef = deckMovies
    /\ rendered = Rendering(deckMovies, NoDrag, "d1")
    /\ \E rect \in SampleGrids :
         \E dx1 \in Offsets(rect.width), dx2 \in Offsets(rect.width),
            dy1 \in Offsets(rect.height), dy2 \in Offsets(rect.height) :
             out = << [rect |-> rect,
                       p |-> [x |-> rect.left + dx1, y |-> rect.top + dy1],
                       q |-> [x |-> rect.left + dx2, y |-> rect.top + dy2]] >>
    /\ Idle

\* What updateMoviePosition writes to a session's movie for a pointer position.
WrittenScore(rect, pointer) ==
    LET next  == ScoreInRect(rect, pointer.x, pointer.y)
        movie == [id |-> "m1", title |-> "Alien", fun |-> 500, good |-> 500]
        moved == applyMovieScores(<< movie >>, << "m1" >>, next.fun, next.good)
    IN  [fun |-> moved[1].fun, good |-> moved[1].good]

\* Two pointer events of a session over the grid.
EvalPointer ==
    /\ Len(out) = 1
    /\ out' = Append(out, [p |-> WrittenScore(out[1].rect, out[1].p),
                           q |-> WrittenScore(out[1].rect, out[1].q)])
    /\ UNCHANGED << server, budget, sidebar, saveReq, error, deckMovies, selectedDeckId, draggingGroup, gridRef, moviesRef,
                    lastPointerRef, rendered, listener, effectsPending, loadReq,
                    addReq, removeReq, sent, last, origin, counters >>

NextPointer == EvalPointer

SpecPointer == InitPointer /\ [][NextPointer]_vars

----------------------------------------------------------------------------
(* Properties *)

\* A score of the Score Model: within [0, 10] and a multiple of 0.1.
OnGrid(v) == 0 <= v /\ v <= 1000 /\ v % 10 = 0

\* The release has just happened: `last` describes it, and the refs and the DOM
\* are still the ones the release read.
Released == last.ev = "up"

\* C1: in every client state and in every create or update request the client
\* sends, each movie's fun and good are within [0, 10] and a multiple of 0.1,
\* scores typed into the add-movie form included.
C1_ScoresOnGrid ==
    /\ \A i \in 1..Len(deckMovies) :
           OnGrid(deckMovies[i].fun) /\ OnGrid(deckMovies[i].good)
    /\ \A i \in 1..Len(sent) :
           sent[i].method \in { "POST", "PUT" }
               => OnGrid(sent[i].fun) /\ OnGrid(sent[i].good)

\* The nearest tenth of a score after clamping it to [0, 10], a half going up,
\* stated without the code's arithmetic.
Clamped(v) == IF v < 0 THEN 0 ELSE IF v > 1000 THEN 1000 ELSE v
Tenth(v) == CHOOSE t \in 0..100 : 10 * t - 5 <= Clamped(v) /\ Clamped(v) < 10 * t + 5
Cell(movie) == << Tenth(movie.fun), Tenth(movie.good) >>

GroupsOf(groups, id) ==
    { g \in 1..Len(groups) : \E k \in 1..Len(groups[g].ids) : groups[g].ids[k] = id }

\* C2: the groups of groupedMovies are a partition of the list: every movie id
\* is in exactly one group, once; two movies share a group iff their rounded
\* clamped fun and good are both equal; distinct coordinate pairs never share a
\* key, and each group carries the coordinate of its members.
C2_GroupsArePartition ==
    out # << >> =>
        LET groups == out[1]
            n      == Len(deckMovies)
        IN  /\ \A i \in 1..n :
                   /\ Cardinality(GroupsOf(groups, deckMovies[i].id)) = 1
                   /\ \A g \in GroupsOf(groups, deckMovies[i].id) :
                          /\ Cardinality({ k \in 1..Len(groups[g].ids) :
                                             groups[g].ids[k] = deckMovies[i].id }) = 1
                          /\ << groups[g].fun, groups[g].good >>
                                 = << 10 * Cell(deckMovies[i])[1],
                                      10 * Cell(deckMovies[i])[2] >>
            /\ \A g \in 1..Len(groups) : \A k \in 1..Len(groups[g].ids) :
                   \E i \in 1..n : deckMovies[i].id = groups[g].ids[k]
            /\ \A i, j \in 1..n :
                   (GroupsOf(groups, deckMovies[i].id) = GroupsOf(groups, deckMovies[j].id))
                       <=> (Cell(deckMovies[i]) = Cell(deckMovies[j]))
            /\ \A g, h \in 1..Len(groups) :
                   g # h => /\ groups[g].key # groups[h].key
                            /\ << groups[g].fun, groups[g].good >>
                                   # << groups[h].fun, groups[h].good >>

\* A list of three movies in two groups, one of them holding two movies whose
\* raw scores differ, has been grouped.
C2_Witness ==
    /\ out # << >>
    /\ Len(deckMovies) = 3
    /\ Len(out[1]) = 2
    /\ \E i, j \in 1..3 :
           /\ GroupsOf(out[1], deckMovies[i].id) = GroupsOf(out[1], deckMovies[j].id)
           /\ deckMovies[i].fun # deckMovies[j].fun

\* The movies of `movies` whose rounded clamped scores are (fun, good).
IdsAt(movies, fun, good) ==
    { movies[i].id : i \in { j \in 1..Len(movies) :
                               /\ roundScore(clampScore(movies[j].fun)) = fun
                               /\ roundScore(clampScore(movies[j].good)) = good } }

\* The ids of the candidate group the release snapped to.
CandidateIds ==
    LET groups == SnapGroups(last.drag)
    IN  UNION { Range(groups[g].ids) :
                  g \in { h \in 1..Len(groups) :
                            groups[h].fun = last.snap.fun /\ groups[h].good = last.snap.good } }

\* C3: after a release that snapped, every id of the session has exactly the
\* target's fun and good in memory; the session's movies and the movies of the
\* candidate group form one group at the target; and when the session held
\* every movie of its origin coordinate, no group remains at the origin.
C3_SnapMergesGroups ==
    (Released /\ last.snap # NoSnap) =>
        LET groups == groupedMovies(deckMovies)
            ids    == Range(last.drag.ids)
        IN  /\ \A id \in ids : \E i \in 1..Len(deckMovies) :
                   /\ deckMovies[i].id = id
                   /\ deckMovies[i].fun = last.snap.fun
                   /\ deckMovies[i].good = last.snap.good
            /\ \E g \in 1..Len(groups) :
                   /\ groups[g].fun = last.snap.fun
                   /\ groups[g].good = last.snap.good
                   /\ (ids \cup CandidateIds) \subseteq Range(groups[g].ids)
            /\ origin.all => IdsAt(deckMovies, origin.fun, origin.good) = { }

\* The rectangles of the dragged element as the DOM `dom` shows it: for a
\* single session the title of the dragged movie and the anchor of the group
\* it is rendered in, for a group session the anchor and the label container of
\* the group the dragged movies are rendered in.
RenderedDragRects(dom, drag) ==
    IF drag.type = "single"
    THEN UNION { { TitleRect(dom[g], ItemIndex(dom[g], drag.ids[1])), AnchorRect(dom[g]) } :
                   g \in { h \in 1..Len(dom) : ItemIndex(dom[h], drag.ids[1]) # 0 } }
    ELSE UNION { { AnchorRect(dom[g]), LabelRect(dom[g]) } :
                   g \in { h \in 1..Len(dom) :
                             Range(dom[h].ids) \cap Range(drag.ids) # { } } }

\* Some rectangle of `rects` overlaps a rectangle of a rendered candidate group
\* with a ratio of at least 0.8.
OverlapsCandidate(dom, groups, rects) ==
    \E c \in 1..Len(groups) :
        LET el == QueryGroup(dom, groups[c].key)
        IN  /\ el # 0
            /\ \E r \in rects : \E k \in 1..Len(CandidateRects(dom[el])) :
                   RatioGE(overlapRatio(r, CandidateRects(dom[el])[k]), overlapThreshold)

\* C4: at a release, in both modes, the resolver finds the rectangles of the
\* dragged element as rendered at that time, also when the drag has moved the
\* movies to another coordinate than at pointer-down; so an overlap of at least
\* 0.8 between such a rectangle and a candidate's rectangle makes the release
\* snap to a candidate by overlap.
C4_DraggedElementFound ==
    (Released /\ gridRef) =>
        LET dom   == DomGroups
            rects == RenderedDragRects(dom, last.drag)
        IN  /\ Range(draggedRects(dom, last.drag)) = rects
            /\ OverlapsCandidate(dom, SnapGroups(last.drag), rects)
                   => last.via = "overlap"

\* C5: a release for which neither the overlap step nor the distance step
\* finds a match changes no score in memory, and leaves every id of the session
\* at the score computed from the last pointer event of the session.
C5_NoSnapKeepsPointerScore ==
    [][ (last'.ev = "up" /\ last'.via = "none") =>
            /\ deckMovies' = deckMovies
            /\ \A id \in Range(last'.drag.ids) : \E i \in 1..Len(deckMovies') :
                   /\ deckMovies'[i].id = id
                   /\ deckMovies'[i].fun
                          = roundScore(PointerScore(lastPointerRef.x, lastPointerRef.y).fun)
                   /\ deckMovies'[i].good
                          = roundScore(PointerScore(lastPointerRef.x, lastPointerRef.y).good)
      ]_vars

\* The unit cells of the plane that lie in rectangle r.
Cells(r) ==
    { << x, y >> \in (r.left .. (r.left + r.width - 1)) \X (r.top .. (r.top + r.height - 1)) :
        TRUE }

SmallerArea(a, b) ==
    IF Cardinality(Cells(a)) <= Cardinality(Cells(b))
    THEN Cardinality(Cells(a)) ELSE Cardinality(Cells(b))

\* C6: the overlap ratio of a pair of rectangles is the area of their
\* intersection divided by the smaller of the two areas, and 0 when either area
\* is 0; the pair is an overlap match exactly when the ratio is at least 0.8.
C6_OverlapRatio ==
    Len(out) = 2 =>
        LET a     == out[1].a
            b     == out[1].b
            ratio == out[2].ratio
            both  == Cardinality(Cells(a) \cap Cells(b))
        IN  /\ ratio.den > 0
            /\ IF Cells(a) = { } \/ Cells(b) = { }
               THEN ratio.num = 0
               ELSE ratio.num * SmallerArea(a, b) = both * ratio.den
            /\ out[2].match <=> 10 * ratio.num >= 8 * ratio.den

\* A pair whose ratio is exactly 0.8 has been evaluated.
C6_Witness ==
    /\ Len(out) = 2
    /\ out[2].ratio.num > 0
    /\ 10 * out[2].ratio.num = 8 * out[2].ratio.den
    /\ out[2].match

\* The (candidate group, dragged rectangle, candidate rectangle) triples the
\* overlap step of the release evaluates, and their order of evaluation.
Pairs(dom, groups, dragged) ==
    UNION { { << c, d, k >> :
                k \in 1..Len(CandidateRects(dom[QueryGroup(dom, groups[c].key)])) } :
            c \in { h \in 1..Len(groups) : QueryGroup(dom, groups[h].key) # 0 },
            d \in 1..Len(dragged) }

PairRatio(dom, groups, dragged, p) ==
    overlapRatio(dragged[p[2]], CandidateRects(dom[QueryGroup(dom, groups[p[1]].key)])[p[3]])

Before(p, q) ==
    \/ p[1] < q[1]
    \/ p[1] = q[1] /\ p[2] < q[2]
    \/ p[1] = q[1] /\ p[2] = q[2] /\ p[3] <= q[3]

\* The pairs that meet the threshold with the greatest ratio of all.
TopPairs(dom, groups, dragged) ==
    LET all == Pairs(dom, groups, dragged)
        met == { p \in all : RatioGE(PairRatio(dom, groups, dragged, p), overlapThreshold) }
    IN  { p \in met : \A q \in met : RatioGE(PairRatio(dom, groups, dragged, p),
                                             PairRatio(dom, groups, dragged, q)) }

\* C7: when some pair of a dragged rectangle and a candidate rectangle meets
\* the 0.8 threshold, the release snaps to the group owning the pair of
\* greatest ratio, the first evaluated among equals, whichever group is
\* nearest to the pointer.
C7_MaxOverlapWins ==
    (Released /\ gridRef) =>
        LET dom     == DomGroups
            groups  == SnapGroups(last.drag)
            dragged == draggedRects(dom, last.drag)
            top     == TopPairs(dom, groups, dragged)
        IN  top # { } =>
                \E p \in top :
                    /\ \A q \in top : Before(p, q)
                    /\ last.via = "overlap"
                    /\ last.snap = [fun |-> groups[p[1]].fun, good |-> groups[p[1]].good]

\* A release snapped by overlap where pairs of two groups tie for the greatest
\* ratio and the group nearest to the pointer, within 18 px, is not the one
\* snapped to.
C7_Witness ==
    /\ Released /\ gridRef
    /\ last.via = "overlap"
    /\ LET groups  == SnapGroups(last.drag)
           top     == TopPairs(DomGroups, groups, draggedRects(DomGroups, last.drag))
           nearest == NearestGroup(groups, lastPointerRef.x, lastPointerRef.y, NoNearest)
       IN  /\ \E p, q \in top : p[1] # q[1]
           /\ nearest # NoNearest
           /\ [fun |-> nearest.fun, good |-> nearest.good] # last.snap

\* The on-screen position of a score: good runs along x from the grid's left
\* edge, fun along y from the grid's bottom edge.
ScreenX(good) ==
    CHOOSE x \in GridRect.left .. (GridRect.left + GridRect.width) :
        (x - GridRect.left) * 1000 = good * GridRect.width
ScreenY(fun) ==
    CHOOSE y \in GridRect.top .. (GridRect.top + GridRect.height) :
        (GridRect.top + GridRect.height - y) * 1000 = fun * GridRect.height

\* The square of the distance between the pointer of the release and a group.
PointerDistance2(group) ==
    (lastPointerRef.x - ScreenX(group.good)) * (lastPointerRef.x - ScreenX(group.good))
        + (lastPointerRef.y - ScreenY(group.fun)) * (lastPointerRef.y - ScreenY(group.fun))

\* C8: when no pair meets the overlap threshold, the release snaps to the
\* candidate group whose anchor position is nearest to the final pointer
\* position, provided it is at most 18 px away (18 px exactly included), and to
\* nothing when no group is that near.
C8_NearestWithin18 ==
    (Released /\ gridRef) =>
        LET groups == SnapGroups(last.drag)
            top    == TopPairs(DomGroups, groups, draggedRects(DomGroups, last.drag))
            near   == { g \in 1..Len(groups) : PointerDistance2(groups[g]) <= 18 * 18 }
        IN  top = { } =>
                IF near = { }
                THEN last.snap = NoSnap /\ last.via = "none"
                ELSE /\ last.via = "distance"
                     /\ \E g \in near :
                            /\ \A h \in near :
                                   PointerDistance2(groups[g]) <= PointerDistance2(groups[h])
                            /\ last.snap = [fun |-> groups[g].fun, good |-> groups[g].good]

\* A release snapped by distance to a group exactly 18 px from the pointer.
C8_Witness ==
    /\ Released /\ gridRef
    /\ last.via = "distance"
    /\ \E g \in 1..Len(SnapGroups(last.drag)) :
           /\ PointerDistance2(SnapGroups(last.drag)[g]) = 18 * 18
           /\ last.snap = [fun |-> SnapGroups(last.drag)[g].fun,
                           good |-> SnapGroups(last.drag)[g].good]

\* The groups of the Grouping Engine for the list without the session's ids,
\* as (key, fun, good, ids).
GroupsWithout(movies, ids) ==
    LET others == Filter(movies, { m.id : m \in Range(movies) } \ ids)
        groups == groupedMovies(others)
    IN  [ g \in 1..Len(groups) |->
            [key |-> groups[g].key, fun |-> groups[g].fun,
             good |-> groups[g].good, ids |-> groups[g].ids] ]

\* C9: at a release the candidate groups are the groups of the current movie
\* list without the session's ids, and a snap target is the rounded clamped
\* score of a movie of the current list that is not in the session.  (The
\* release changes the session's movies only, so the other movies of the list
\* are the same before and after it.)
C9_CandidatesAreCurrent ==
    (Released /\ gridRef) =>
        /\ SnapGroups(last.drag) = GroupsWithout(deckMovies, Range(last.drag.ids))
        /\ last.snap # NoSnap =>
               IdsAt(deckMovies, last.snap.fun, last.snap.good) \ Range(last.drag.ids) # { }

\* The candidate groups of the release that have no element in the DOM.
Unrendered(dom, groups) ==
    { g \in 1..Len(groups) : QueryGroup(dom, groups[g].key) = 0 }

\* C10: a release always completes, whatever is missing.  Without a grid
\* nothing is snapped to; a candidate without a rendered element never wins by
\* overlap, and without a dragged element nothing does; the other candidates
\* and the distance step still decide; and in every case the session is over
\* and one update per session movie of the mirrored list has been handed off.
C10_SnapNeverFails ==
    Released =>
        LET dom     == DomGroups
            groups  == SnapGroups(last.drag)
            dragged == draggedRects(dom, last.drag)
            top     == TopPairs(dom, groups, dragged)
            near    == { g \in 1..Len(groups) : PointerDistance2(groups[g]) <= 18 * 18 }
            mine    == { i \in 1..Len(moviesRef) : moviesRef[i].id \in Range(last.drag.ids) }
        IN  /\ ~gridRef => last.snap = NoSnap
            /\ gridRef =>
                   /\ dragged = << >> => last.via # "overlap"
                   /\ last.via = "overlap" =>
                          \E g \in 1..Len(groups) :
                              /\ g \notin Unrendered(dom, groups)
                              /\ last.snap = [fun |-> groups[g].fun, good |-> groups[g].good]
                   /\ top # { } => last.via = "overlap"
                   /\ (top = { } /\ near # { }) => last.via = "distance"
            /\ draggingGroup = NoDrag
            /\ Len(sent) = Cardinality(mine)
            /\ \A i \in mine : \E k \in 1..Len(sent) :
                   sent[k].method = "PUT" /\ sent[k].id = moviesRef[i].id

\* A release where the dragged element was not found and a candidate group had
\* no rendered element, and which still snapped by distance.
C10_Witness ==
    /\ Released /\ gridRef
    /\ draggedRects(DomGroups, last.drag) = << >>
    /\ Unrendered(DomGroups, SnapGroups(last.drag)) # { }
    /\ last.via = "distance"
    /\ sent # << >>

\* The point of the closed rectangle nearest to a pointer position.
NearestInRect(rect, pointer) ==
    [x |-> IF pointer.x < rect.left THEN rect.left
           ELSE IF pointer.x > rect.left + rect.width THEN rect.left + rect.width
           ELSE pointer.x,
     y |-> IF pointer.y < rect.top THEN rect.top
           ELSE IF pointer.y > rect.top + rect.height THEN rect.top + rect.height
           ELSE pointer.y]

\* C11: a pointer at the grid's top-left corner maps to fun 10, good 0, one at
\* the bottom-right corner to fun 0, good 10, and a pointer outside the grid to
\* the score of the nearest point of the grid's border.
C11_CornersAndOutside ==
    Len(out) = 2 =>
        LET rect == out[1].rect
            p    == out[1].p
            q    == out[1].q
        IN  /\ (p.x = rect.left /\ p.y = rect.top)
                   => out[2].p = [fun |-> 1000, good |-> 0]
            /\ (p.x = rect.left + rect.width /\ p.y = rect.top + rect.height)
                   => out[2].p = [fun |-> 0, good |-> 1000]
            /\ q = NearestInRect(rect, p) => out[2].p = out[2].q

\* A pointer left of and below the grid has been mapped, together with the
\* grid's bottom-left corner, the point nearest to it.
C11_Witness ==
    /\ Len(out) = 2
    /\ out[1].p.x < out[1].rect.left
    /\ out[1].p.y > out[1].rect.top + out[1].rect.height
    /\ out[1].q = NearestInRect(out[1].rect, out[1].p)
    /\ out[2].p = [fun |-> 0, good |-> 0]

\* q is further right than p at the same height; q is further up than p at the
\* same abscissa.
FurtherRight(p, q) == q.x > p.x /\ q.y = p.y
FurtherUp(p, q) == q.y < p.y /\ q.x = p.x

AtBound(v) == v = 0 \/ v = 1000

----------------------------------------------------------------------------
(* The dispatch of a pointer-down inside one .movie-point, on its own: the  *)
(* listeners of the group's render and the order React calls them in.       *)

\* The elements a pointer-down can have as its target.
DownTargets ==
    { "movie-point", "movie-label", "movie-label-line", "movie-label-title",
      "movie-delete" }

\* The elements from the .movie-point down to the target.
DownPath(target) ==
    CASE target = "movie-point"       -> << "movie-point" >>
      [] target = "movie-label"       -> << "movie-point", "movie-label" >>
      [] target = "movie-label-line"  -> << "movie-point", "movie-label",
                                            "movie-label-line" >>
      [] target = "movie-label-title" -> << "movie-point", "movie-label",
                                            "movie-label-line", "movie-label-title" >>
      [] target = "movie-delete"      -> << "movie-point", "movie-label",
                                            "movie-label-line", "movie-delete" >>

\* onPointerDownCapture and onPointerDown of the elements of a group.
DownListener(element, phase) ==
    IF phase = "capture"
    THEN IF element = "movie-label-title" THEN "handleLabelPointerDown" ELSE "none"
    ELSE CASE element = "movie-point"  -> "handlePointerDown"
           [] element = "movie-label"  -> "stopPropagation"
           [] element = "movie-delete" -> "stopPropagation"
           [] OTHER                    -> "none"

RECURSIVE Reverse(_)
Reverse(s) == IF s = << >> THEN << >> ELSE Reverse(Tail(s)) \o << Head(s) >>

\* The listeners of a pointer-down on `target` in the order of the dispatch:
\* the capture phase from the root down, then the bubble phase back up.
DownQueue(target) ==
    LET path    == DownPath(target)
        capture == [ i \in 1..Len(path) |->
                       [element |-> path[i], listener |-> DownListener(path[i], "capture")] ]
        bubble  == [ i \in 1..Len(path) |->
                       [element |-> Reverse(path)[i],
                        listener |-> DownListener(Reverse(path)[i], "bubble")] ]
    IN  capture \o bubble

\* Mutant of StopsPropagation: event.stopPropagation() has no effect.
StopsPropagation_Never(handler) == FALSE

\* The listeners that call event.stopPropagation().
StopsPropagation(handler) ==
    handler \in { "handleLabelPointerDown", "stopPropagation" }

\* The session a listener hands to setDraggingGroup, or NoDrag.
DownSession(entry, target, group, item) ==
    CASE entry.listener = "handlePointerDown" ->
            IF target # entry.element THEN NoDrag
            ELSE [type |-> "group", key |-> GroupKey(group.fun, group.good),
                  ids |-> group.ids]
      [] entry.listener = "handleLabelPointerDown" ->
            [type |-> "single", key |-> << item.id >>, ids |-> << item.id >>]
      [] OTHER -> NoDrag

\* The listeners that run, in order, each with the session it starts.
RECURSIVE RunDown(_, _, _, _)
RunDown(queue, target, group, item) ==
    IF queue = << >> THEN << >>
    ELSE LET entry == Head(queue)
         IN  IF entry.listener = "none"
             THEN RunDown(Tail(queue), target, group, item)
             ELSE << [listener |-> entry.listener, element |-> entry.element,
                      session |-> DownSession(entry, target, group, item)] >>
                  \o ( IF StopsPropagation(entry.listener) THEN << >>
                       ELSE RunDown(Tail(queue), target, group, item) )

\* A pointer-down on an element of a rendered group is dispatched.
EvalPointerDown ==
    \E g \in 1..Len(rendered.groups), target \in DownTargets :
        \E i \in 1..Len(rendered.groups[g].items) :
            LET group == rendered.groups[g]
                calls == RunDown(DownQueue(target), target, group, group.items[i])
                started == { c \in 1..Len(calls) : calls[c].session # NoDrag }
            IN  /\ out = << >>
                /\ out' = << [target |-> target, group |-> group,
                              item |-> group.items[i], calls |-> calls] >>
                /\ draggingGroup' =
                      IF started = { } THEN draggingGroup
                      ELSE calls[CHOOSE c \in started : \A d \in started : d <= c].session
                /\ UNCHANGED << server, budget, sidebar, saveReq, error, deckMovies, selectedDeckId, gridRef,
                                moviesRef, lastPointerRef, rendered, listener,
                                effectsPending, loadReq, addReq, removeReq, sent,
                                last, origin, counters >>

NextDown == EvalPointerDown

SpecDown == InitGroups /\ [][NextDown]_vars

----------------------------------------------------------------------------
(* The normalisation of a score on its own: what the grid shows for a score *)
(* is clampScore of the roundScore(clampScore(.)) the Grouping Engine and    *)
(* applyMovieScores compute.                                                *)

\* The scores the normalisation is applied to, in hundredths.
ScoresBelowZero == 60
MinScoreInput == 0 - ScoresBelowZero
MaxScoreInput == 1060
ScoreInputs == MinScoreInput..MaxScoreInput

normalise(value) == clampScore(roundScore(clampScore(value)))

InitScore ==
    /\ deckMovies = << >>
    /\ moviesRef = deckMovies
    /\ rendered = Rendering(deckMovies, NoDrag, "d1")
    /\ \E v \in ScoreInputs : out = << v >>
    /\ Idle

\* The normalisation is applied to the value computed last.
EvalNormalise ==
    /\ Len(out) < 3
    /\ out' = Append(out, normalise(out[Len(out)]))
    /\ UNCHANGED << server, budget, sidebar, saveReq, error, deckMovies, selectedDeckId, draggingGroup, gridRef,
                    moviesRef, lastPointerRef, rendered, listener, effectsPending,
                    loadReq, addReq, removeReq, sent, last, origin, counters >>

NextScore == EvalNormalise

SpecScore == InitScore /\ [][NextScore]_vars

----------------------------------------------------------------------------
(* Title casing on its own: formatTitle applied to typed titles, and the    *)
(* commit of a drag applied to a movie whose title is stored as typed.      *)

MaxTitleLen == 5

TitleChars == { "A", "n", "o", " ", "\t" }

TheDarkKnight == << "t", "h", "e", " ", "d", "a", "r", "k", " ", "k", "n", "i", "g", "h", "t" >>

TitleInputs ==
    UNION { [1..n -> TitleChars] : n \in 0..MaxTitleLen }
        \cup { TheDarkKnight,
               << " ", "T", "h", "e", " ", " ", "D", "A", "R", "K", "\t", "k", "n", "i", "g", "h", "t", " " >>,
               << "a", " ", "O", "N", " ", "a" >> }

\* A deck whose only movie was stored with the typed title as it is (the
\* backend trims a title and stores it, server/index.js:202, 220-222).
InitTitle ==
    /\ \E typed \in TitleInputs :
           /\ out = << typed >>
           /\ deckMovies = IF trim(typed) = << >> THEN << >>
                            ELSE << [id |-> "m1", title |-> Text(trim(typed)),
                                     fun |-> 700, good |-> 700] >>
    /\ moviesRef = deckMovies
    /\ rendered = Rendering(deckMovies, NoDrag, "d1")
    /\ Idle

\* handleSubmit formats the trimmed title it was given.
EvalFormatTitle ==
    /\ Len(out) = 1
    /\ trim(out[1]) # << >>
    /\ out' = Append(out, formatTitle(trim(out[1])))
    /\ UNCHANGED << server, budget, sidebar, saveReq, error, deckMovies, selectedDeckId, draggingGroup, gridRef,
                    moviesRef, lastPointerRef, rendered, listener, effectsPending,
                    loadReq, addReq, removeReq, sent, last, origin, counters >>

\* The commit of a drag of the stored movie that ends where it began.
EvalPersist ==
    /\ sent = << >>
    /\ deckMovies # << >>
    /\ sent' = persistMoviePositions(selectedDeckId, << "m1" >>, NoSnap)
    /\ UNCHANGED << server, budget, sidebar, saveReq, error, deckMovies, selectedDeckId, draggingGroup, gridRef,
                    moviesRef, lastPointerRef, rendered, listener, effectsPending,
                    loadReq, addReq, removeReq, out, last, origin, counters >>

NextTitle == EvalFormatTitle \/ EvalPersist

SpecTitle == InitTitle /\ [][NextTitle]_vars

----------------------------------------------------------------------------
(* The add-movie form on its own: one submission of typed values.           *)

TypedScores == { -50, -1, 0, 5, 10, 725, 730, 1000, 1001, 1200 }

TypedTitles ==
    { << >>, << " " >>, << "d", "u", "n", "e" >>, << " ", "a", " ", "O", "F" >> }

InitSubmit ==
    /\ deckMovies = ServerMovies("d1")
    /\ moviesRef = deckMovies
    /\ rendered = Rendering(deckMovies, NoDrag, "d1")
    /\ \E typed \in TypedTitles, f \in TypedScores, g \in TypedScores :
           out = << [title |-> typed, fun |-> f, good |-> g] >>
    /\ Idle

\* The "Add movie" button is used: the browser validates the form, and if the
\* submit event fires handleSubmit runs up to the await.
SubmitForm ==
    /\ Len(out) = 1
    /\ rendered.deck # NoDeck
    /\ LET form == out[1]
       IN  IF ~SubmitEventFires(form.title, form)
           THEN /\ out' = Append(out, "invalid")
                /\ UNCHANGED << server, budget, sidebar, sent, addReq, nAdds >>
           ELSE IF trim(form.title) = << >>
           THEN /\ out' = Append(out, "returned")
                /\ UNCHANGED << server, budget, sidebar, sent, addReq, nAdds >>
           ELSE LET body == SubmitBody(form.title, form, rendered.deck, NewIds[1])
                IN  /\ out' = Append(out, "sent")
                    /\ sent' = << body >>
                    /\ addReq' = addReq \cup { body }
                    /\ nAdds' = nAdds + 1
    /\ UNCHANGED << server, budget, sidebar, saveReq, error, deckMovies, selectedDeckId, draggingGroup, gridRef,
                    moviesRef, lastPointerRef, rendered, listener, effectsPending,
                    loadReq, removeReq, last, origin, nSessions, nMoves, nRemoves,
                    nSelects >>

NextSubmit == SubmitForm

SpecSubmit == InitSubmit /\ [][NextSubmit]_vars

----------------------------------------------------------------------------
(* The backend on its own: requests arrive and their statements interleave. *)

InitServer ==
    /\ deckMovies = ServerMovies("d1")
    /\ moviesRef = deckMovies
    /\ rendered = Rendering(deckMovies, NoDrag, "d1")
    /\ out = << >>
    /\ ClientIdle
    /\ \E foreign_keys \in BOOLEAN : db = InitialDb(foreign_keys)
    /\ requests = { }
    /\ nRequests = 0
    /\ clients = InitialClients(FALSE)
    /\ executing = { }
    /\ nCalls = 0

\* A request goes on to its next await, having run a statement.
Advance(r, pc, d) ==
    /\ requests' = (requests \ { r }) \cup { [r EXCEPT !.pc = pc] }
    /\ db' = d
    /\ out' = << >>

\* A request is answered.
Answer(r, status, movies) ==
    /\ requests' = requests \ { r }
    /\ db' = db
    /\ out' = << Response(r, status, movies) >>

\* A request arrives and its route runs up to the first await; a request
\* with a bad body is answered 400 there.
Receive ==
    \E input \in ServerInputs :
        LET r == [n |-> nRequests + 1, route |-> input.route,
                  deck |-> IF input.route = "POST deck" THEN NewDeckIds[nRequests + 1]
                           ELSE input.deck,
                  movie |-> IF input.route = "POST" THEN NewIds[nRequests + 1]
                            ELSE input.movie,
                  title |-> input.title, name |-> input.name,
                  fun |-> input.fun, good |-> input.good, isNaN |-> input.isNaN,
                  pc |-> IF input.route = "DELETE movie" THEN "DELETE deck_movies"
                         ELSE IF input.route = "POST deck" THEN "INSERT decks"
                         ELSE "SELECT decks",
                  rows |-> NoRows]
        IN  /\ nRequests < MaxServerRequests
            /\ nRequests' = nRequests + 1
            /\ db' = db
            /\ IF BadRequest(input)
               THEN /\ requests' = requests
                    /\ out' = << Response(r, 400, << >>) >>
               ELSE /\ requests' = requests \cup { r }
                    /\ out' = << >>
            /\ UNCHANGED << client, fallback >>

\* GET /api/decks/:deckId
GetDeck ==
    \E r \in requests :
        /\ r.route = "GET"
        /\ CASE r.pc = "SELECT decks" ->
                    IF ensureDeckExists(db, r.deck)
                    THEN Advance(r, "SELECT deck_movies", db)
                    ELSE Answer(r, 404, << >>)
             [] r.pc = "SELECT deck_movies" ->
                    /\ requests' = (requests \ { r }) \cup
                           { [r EXCEPT !.pc = "respond",
                                       !.rows = SelectDeckMovies(db, r.deck)] }
                    /\ db' = db
                    /\ out' = << >>
             [] r.pc = "respond" -> Answer(r, 200, r.rows)
        /\ UNCHANGED << client, nRequests, fallback >>

\* POST /api/decks
CreateDeck ==
    \E r \in requests :
        /\ r.route = "POST deck"
        /\ CASE r.pc = "INSERT decks" ->
                    Advance(r, "respond", InsertDeck(db, r.deck, r.name))
             [] r.pc = "respond" -> Answer(r, 201, << >>)
        /\ UNCHANGED << client, nRequests, fallback >>

\* PUT /api/decks/:deckId
RenameDeck ==
    \E r \in requests :
        /\ r.route = "PUT deck"
        /\ CASE r.pc = "SELECT decks" ->
                    IF ensureDeckExists(db, r.deck)
                    THEN Advance(r, "UPDATE decks", db)
                    ELSE Answer(r, 404, << >>)
             [] r.pc = "UPDATE decks" ->
                    Advance(r, "respond", UpdateDeckName(db, r.deck, r.name))
             [] r.pc = "respond" -> Answer(r, 200, << >>)
        /\ UNCHANGED << client, nRequests, fallback >>

\* DELETE /api/decks/:deckId
DeleteDeck ==
    \E r \in requests :
        /\ r.route = "DELETE deck"
        /\ CASE r.pc = "SELECT decks" ->
                    IF ensureDeckExists(db, r.deck)
                    THEN Advance(r, "DELETE deck_movies", db)
                    ELSE Answer(r, 404, << >>)
             [] r.pc = "DELETE deck_movies" ->
                    Advance(r, "DELETE decks", DeleteDeckMovies(db, r.deck))
             [] r.pc = "DELETE decks" ->
                    Advance(r, "DELETE movies", DeleteDeckRow(db, r.deck))
             [] r.pc = "DELETE movies" ->
                    Advance(r, "respond", DeleteOrphanMovies(db))
             [] r.pc = "respond" -> Answer(r, 204, << >>)
        /\ UNCHANGED << client, nRequests, fallback >>

\* DELETE /api/decks/:deckId/movies/:movieId
DeleteMovie ==
    \E r \in requests :
        /\ r.route = "DELETE movie"
        /\ CASE r.pc = "DELETE deck_movies" ->
                    Advance(r, "DELETE movies", DeleteDeckMovie(db, r.deck, r.movie))
             [] r.pc = "DELETE movies" ->
                    Advance(r, "respond", DeleteOrphanMovies(db))
             [] r.pc = "respond" -> Answer(r, 204, << >>)
        /\ UNCHANGED << client, nRequests, fallback >>

\* POST /api/decks/:deckId/movies; a failing INSERT rejects the handler's
\* promise and the request is left without answer (status 0).
CreateMovie ==
    \E r \in requests :
        /\ r.route = "POST"
        /\ CASE r.pc = "SELECT decks" ->
                    IF ensureDeckExists(db, r.deck)
                    THEN Advance(r, "INSERT movies", db)
                    ELSE Answer(r, 404, << >>)
             [] r.pc = "INSERT movies" ->
                    Advance(r, "INSERT deck_movies", InsertMovie(db, r.movie, r.title))
             [] r.pc = "INSERT deck_movies" ->
                    IF InsertDeckMovieFails(db, r.deck, r.movie)
                    THEN Answer(r, 0, << >>)
                    ELSE Advance(r, "respond",
                                 InsertDeckMovie(db, r.deck, r.movie, r.fun, r.good))
             [] r.pc = "respond" ->
                    Answer(r, 201, << [id |-> r.movie, title |-> r.title,
                                       fun |-> r.fun, good |-> r.good] >>)
        /\ UNCHANGED << client, nRequests, fallback >>

\* PUT /api/decks/:deckId/movies/:movieId
UpdateMovie ==
    \E r \in requests :
        /\ r.route = "PUT"
        /\ CASE r.pc = "SELECT decks" ->
                    IF ~ensureDeckExists(db, r.deck) THEN Answer(r, 404, << >>)
                    ELSE IF r.title # "" THEN Advance(r, "UPDATE movies", db)
                    ELSE Advance(r, "UPDATE deck_movies", db)
             [] r.pc = "UPDATE movies" ->
                    Advance(r, "UPDATE deck_movies", UpdateMovieTitle(db, r.movie, r.title))
             [] r.pc = "UPDATE deck_movies" ->
                    Advance(r, "respond",
                            UpdateDeckMovie(db, r.deck, r.movie, r.fun, r.good))
             [] r.pc = "respond" ->
                    Answer(r, 200, << [id |-> r.movie, title |-> r.title,
                                       fun |-> r.fun, good |-> r.good] >>)
        /\ UNCHANGED << client, nRequests, fallback >>

NextServer ==
    \/ Receive
    \/ GetDeck
    \/ CreateDeck
    \/ RenameDeck
    \/ DeleteDeck
    \/ DeleteMovie
    \/ CreateMovie
    \/ UpdateMovie

SpecServer == InitServer /\ [][NextServer]_vars

----------------------------------------------------------------------------
(* The database client of server/db.js on its own: execute calls are made  *)
(* and the promises of the remote and of the local client settle in any    *)
(* order, fulfilled or rejected.                                            *)

InitDb ==
    /\ deckMovies = ServerMovies("d1")
    /\ moviesRef = deckMovies
    /\ rendered = Rendering(deckMovies, NoDrag, "d1")
    /\ out = << >>
    /\ ClientIdle
    /\ db = InitialDb(TRUE)
    /\ requests = { }
    /\ nRequests = 0
    /\ \E remoteUrl \in BOOLEAN : clients = InitialClients(remoteUrl)
    /\ executing = { }
    /\ nCalls = 0

\* What a settled execute call hands to its caller: the result or the error
\* of the client `on`, after `attempts` calls of a client's execute.
Outcome(call, ok) ==
    [n |-> call.n, on |-> call.on, ok |-> ok, attempts |-> call.attempts]

\* Mutant of FallsBack: every failure with a remote client configured is
\* retried.
FallsBack_WheneverRemote(c) == c.remoteClient

\* The condition of the catch block under which the call is made again.
FallsBack(c) ==
    ~c.hasFallenBack /\ c.remoteClient /\ c.activeClient = "remote"

\* db.execute(input) up to its await: activeClient.execute(input) is called.
Execute ==
    /\ nCalls < MaxCalls
    /\ nCalls' = nCalls + 1
    /\ executing' = executing \cup { [n |-> nCalls + 1, on |-> clients.activeClient,
                               attempts |-> 1, caught |-> FALSE] }
    /\ out' = << >>
    /\ UNCHANGED << client, db, requests, nRequests, clients >>

\* The awaited promise is fulfilled: db.execute returns the result.
Fulfil ==
    \E call \in executing :
        /\ executing' = executing \ { call }
        /\ out' = << Outcome(call, TRUE) >>
        /\ UNCHANGED << client, db, requests, nRequests, clients, nCalls >>

\* The awaited promise is rejected: in the try block the catch block runs and
\* either falls back and calls the local client, or throws the error; a
\* rejection of the call made in the catch block leaves db.execute at once.
Reject ==
    \E call \in executing :
        IF ~call.caught /\ FallsBack(clients)
        THEN /\ clients' = [clients EXCEPT !.hasFallenBack = TRUE,
                                           !.activeClient = "local"]
             /\ executing' = (executing \ { call })
                            \cup { [call EXCEPT !.on = "local", !.attempts = @ + 1,
                                                !.caught = TRUE] }
             /\ out' = << >>
             /\ UNCHANGED << client, db, requests, nRequests, nCalls >>
        ELSE /\ executing' = executing \ { call }
             /\ out' = << Outcome(call, FALSE) >>
             /\ UNCHANGED << client, db, requests, nRequests, clients, nCalls >>

NextDb == Execute \/ Fulfil \/ Reject

SpecDb == InitDb /\ [][NextDb]_vars

----------------------------------------------------------------------------
(* Drag sessions *)

\* The (fun, good) pairs the movies named by ids have in `movies`.
ScoresOf(movies, ids) ==
    { [fun |-> movies[i].fun, good |-> movies[i].good] :
        i \in { j \in 1..Len(movies) : movies[j].id \in Range(ids) } }

\* The ids of a session that are in `movies` are all at one (fun, good).
Together(movies, ids) == Cardinality(ScoresOf(movies, ids)) <= 1

\* C13: after every pointer-down, pointer-move and release of a session, all
\* the session's ids that are in the movie list have the same (fun, good): no
\* such event leaves some of them at one score and others at another.
C13_SessionMovesTogether ==
    [][ /\ ( draggingGroup' # NoDrag /\ draggingGroup' # draggingGroup )
            => Together(deckMovies', draggingGroup'.ids)
        /\ ( listener.drag # NoDrag /\ lastPointerRef' # lastPointerRef )
            => Together(deckMovies', listener.drag.ids)
        /\ last'.ev = "up"
            => Together(deckMovies', last'.drag.ids) ]_vars

\* C14: a session starts only from Idle: a pointer-down that starts a session
\* finds no session active, so that no session is replaced or discarded by a
\* later pointer-down without its commit.
C14_SessionStartsFromIdle ==
    [][ nSessions' # nSessions => draggingGroup = NoDrag ]_vars

\* C15: a session terminates with exactly one run of the release (one snap
\* resolution, one hand-off to persistence, then the session's destruction):
\* every run of the release handler is for the session that is active, and
\* destroys it, so that no session is released a second time, also when a
\* pointer-up and a pointer-cancel arrive before the listeners are removed.
C15_OneReleasePerSession ==
    [][ last'.ev = "up"
        => /\ draggingGroup = last'.drag
           /\ draggingGroup' = NoDrag ]_vars

\* The coordinate the session's ids had at the pointer-down.
OriginScore == [fun |-> origin.fun, good |-> origin.good]

\* C16: from the same Dragging state a pointer-cancel leaves exactly the
\* in-memory scores, the persistence requests and the Idle state a pointer-up
\* leaves; and a release is never a rollback: it writes the snap target or
\* nothing, so the session's ids are at their coordinate of the pointer-down
\* afterwards only if they were there before the release or if that
\* coordinate is the snap target.
C16_CancelCommitsLikeUp ==
    [][ /\ listener.drag # NoDrag
            => LET cancelled == Dispatch("pointercancel")
               IN  /\ cancelled = Dispatch("pointerup")
                   /\ cancelled.session = NoDrag
        /\ last'.ev = "up"
            => \/ ScoresOf(deckMovies', last'.drag.ids)
                    = ScoresOf(deckMovies, last'.drag.ids)
               \/ /\ last'.snap # NoSnap
                  /\ ScoresOf(deckMovies', last'.drag.ids) = { last'.snap } ]_vars

\* A release has ended a session whose ids the drag had moved away from their
\* coordinate of the pointer-down: they stay where the drag put them, and the
\* commit is sent.
C16_Witness ==
    /\ Released
    /\ draggingGroup = NoDrag
    /\ last.snap = NoSnap
    /\ sent # << >>
    /\ origin # NoOrigin
    /\ ScoresOf(deckMovies, last.drag.ids) # { }
    /\ OriginScore \notin ScoresOf(deckMovies, last.drag.ids)

\* The movies of the active session as they are in `movies`.
SessionMovies(movies) == Filter(movies, Range(draggingGroup.ids))

\* C17: while a session is active, a step that changes the fun or good of a
\* movie named by the session's ids, or replaces or removes such a movie, is
\* the session's pointer-down, a pointer-move or a release: a deck load, an
\* add-movie response and a remove-movie response leave those movies alone.
C17_SessionOwnsItsMovies ==
    [][ ( draggingGroup # NoDrag
          /\ SessionMovies(deckMovies') # SessionMovies(deckMovies) )
        => \/ nSessions' # nSessions
           \/ nMoves' # nMoves
           \/ last'.ev = "up" ]_vars

\* C18: on release, the fun and good sent to the backend for a session id are
\* that id's fun and good in memory after the release, whatever the order of
\* pointer-move, render, the moviesRef effect and the release was.
C18_CommitSendsFinalScores ==
    Released =>
        \A i \in 1..Len(sent) : \A j \in 1..Len(deckMovies) :
            deckMovies[j].id = sent[i].id
            => ( sent[i].fun = deckMovies[j].fun /\ sent[i].good = deckMovies[j].good )

\* C19: the requests of a drag commit are one PUT per session id that is in
\* the movie list, and each carries that movie's title in memory together with
\* its fun and good.
C19_CommitCarriesTitle ==
    Released =>
        /\ \A j \in 1..Len(deckMovies) :
               deckMovies[j].id \in Range(last.drag.ids)
               => Cardinality({ i \in 1..Len(sent) :
                                   /\ sent[i].method = "PUT"
                                   /\ sent[i].id = deckMovies[j].id
                                   /\ sent[i].title = deckMovies[j].title }) = 1
        /\ \A i \in 1..Len(sent) :
               \E j \in 1..Len(deckMovies) :
                   /\ deckMovies[j].id = sent[i].id
                   /\ deckMovies[j].id \in Range(last.drag.ids)

\* C20: a release returns to Idle in the step that hands the commit over,
\* without waiting for the backend: after that step no session is active while
\* the commit is in flight; and the completion of a commit, success or
\* failure, changes no score in memory and nothing of a session.
C20_ReleaseDoesNotWait ==
    [][ /\ last'.ev = "up"
            => /\ draggingGroup' = NoDrag
               /\ sent' # << >> => saveReq' > 0
        /\ saveReq' < saveReq
            => UNCHANGED << server, budget, sidebar, deckMovies, draggingGroup, lastPointerRef, moviesRef,
                            listener, rendered >> ]_vars

\* A new session has started from Idle and has moved its movie while the
\* commit of the session before it is still in flight.
C20_Witness ==
    /\ saveReq > 0
    /\ nSessions = 1
    /\ draggingGroup # NoDrag
    /\ rendered.drag = NoDrag
    /\ listener.drag = NoDrag
    /\ deckMovies # moviesRef

----------------------------------------------------------------------------
(* Commit failure *)

\* C21: when a commit fails the error notice is set, the scores in memory stay
\* as they are (no rollback to the value before the drag or to the backend's),
\* no request is sent again and the commit is not queued again, and later
\* drags are not blocked: the session state is untouched.
C21_FailedCommitKeepsScores ==
    [][ last'.ev = "failed"
        => /\ error' = SaveFailed
           /\ deckMovies' = deckMovies
           /\ sent' = << >>
           /\ saveReq' = saveReq - 1
           /\ UNCHANGED << server, budget, sidebar, draggingGroup, lastPointerRef, moviesRef, listener,
                           rendered, gridRef >> ]_vars

\* The commit of one session has failed and its notice is set; the session
\* that started after that release is active, rendered and listening, and has
\* moved its movie away from where the backend has it.
C21_Witness ==
    /\ error = SaveFailed
    /\ nSessions = 1
    /\ draggingGroup # NoDrag
    /\ draggingGroup # PressedDrag
    /\ listener.drag = draggingGroup
    /\ rendered.drag = draggingGroup
    /\ nMoves = 1
    /\ ScoresOf(deckMovies, draggingGroup.ids)
           # ScoresOf(ServerMovies("d1"), draggingGroup.ids)

----------------------------------------------------------------------------
(* Pointer-down dispatch *)

\* The sessions the listeners of the dispatched pointer-down started, in order.
RECURSIVE StartedSessions(_)
StartedSessions(calls) ==
    IF calls = << >> THEN << >>
    ELSE ( IF Head(calls).session # NoDrag THEN << Head(calls).session >> ELSE << >> )
         \o StartedSessions(Tail(calls))

\* C22: a pointer-down on a group's anchor itself starts one "group" session
\* over exactly the ids of that rendered group; a pointer-down on an item's
\* title starts one "single" session over exactly that id, and the group's
\* handler does not run; a pointer-down on the label container, on a label
\* line or on a delete button starts no session.
C22_PointerDownStartsOneSession ==
    \A k \in 1..Len(out) :
        "calls" \in DOMAIN out[k] =>
            LET d        == out[k]
                sessions == StartedSessions(d.calls)
                ran      == { d.calls[c].listener : c \in 1..Len(d.calls) }
            IN  /\ d.target = "movie-point"
                    => /\ Len(sessions) = 1
                       /\ sessions[1].type = "group"
                       /\ sessions[1].ids = d.group.ids
                       /\ sessions[1].key = d.group.key
                /\ d.target = "movie-label-title"
                    => /\ sessions = << [type |-> "single", key |-> << d.item.id >>,
                                         ids |-> << d.item.id >>] >>
                       /\ "handlePointerDown" \notin ran
                /\ d.target \in { "movie-label", "movie-label-line", "movie-delete" }
                    => sessions = << >>

\* A pointer-down on the title of an item of a group of several movies has
\* started a session on that item alone.
C22_Witness ==
    /\ out # << >>
    /\ "calls" \in DOMAIN out[1]
    /\ out[1].target = "movie-label-title"
    /\ Len(out[1].group.ids) > 1
    /\ draggingGroup = [type |-> "single", key |-> << out[1].item.id >>,
                        ids |-> << out[1].item.id >>]

----------------------------------------------------------------------------
(* Score normalisation *)

\* C23: clamp(round(clamp(v))) is idempotent, and its result is within
\* [0, 10] on the 0.1 grid: the normalisation of a normalised score is that
\* score.
C23_NormaliseIdempotent ==
    /\ Len(out) >= 2 => OnGrid(out[2])
    /\ Len(out) >= 3 => out[3] = out[2]

\* A score off the grid and outside the range has been normalised twice.
C23_Witness ==
    /\ Len(out) = 3
    /\ out[1] > 1000
    /\ out[1] % 10 # 0
    /\ out[2] = 1000

----------------------------------------------------------------------------
(* Grouping: counts and order *)

\* The rounded clamped coordinates of the movies of a list.
CellsOf(movies) == { Cell(movies[i]) : i \in 1..Len(movies) }

\* C24: there are as many groups as distinct rounded clamped (fun, good) pairs
\* in the list: none for an empty list, one holding every movie when all share
\* a coordinate, N singletons when the coordinates are pairwise distinct, and
\* for movies at (7,7), (7,7), (3,9) one group of 2 ids at (7,7) and one of 1
\* id at (3,9); each group's fun and good are the rounded clamped score of its
\* members.
C24_GroupCount ==
    out # << >> =>
        LET groups == out[1]
            n      == Len(deckMovies)
            cells  == CellsOf(deckMovies)
        IN  /\ Len(groups) = Cardinality(cells)
            /\ n = 0 => groups = << >>
            /\ ( n > 0 /\ Cardinality(cells) = 1 )
                   => /\ Len(groups) = 1
                      /\ Range(groups[1].ids) = { deckMovies[i].id : i \in 1..n }
                      /\ Len(groups[1].ids) = n
            /\ Cardinality(cells) = n
                   => \A g \in 1..Len(groups) : Len(groups[g].ids) = 1
            /\ \A g \in 1..Len(groups) : \A i \in 1..n :
                   deckMovies[i].id \in Range(groups[g].ids)
                   => /\ groups[g].fun = 10 * Cell(deckMovies[i])[1]
                      /\ groups[g].good = 10 * Cell(deckMovies[i])[2]
            /\ ( n = 3 /\ Cell(deckMovies[1]) = << 70, 70 >>
                       /\ Cell(deckMovies[2]) = << 70, 70 >>
                       /\ Cell(deckMovies[3]) = << 30, 90 >> )
                   => \E g, h \in 1..2 :
                          /\ Len(groups) = 2
                          /\ Range(groups[g].ids) = { deckMovies[1].id, deckMovies[2].id }
                          /\ Len(groups[g].ids) = 2
                          /\ groups[g].fun = 700 /\ groups[g].good = 700
                          /\ groups[h].ids = << deckMovies[3].id >>
                          /\ groups[h].fun = 300 /\ groups[h].good = 900

\* Movies at (7,7), (7,7) and (3,9), the first two with different raw scores,
\* have been grouped.
C24_Witness ==
    /\ out # << >>
    /\ Len(deckMovies) = 3
    /\ Cell(deckMovies[1]) = << 70, 70 >>
    /\ Cell(deckMovies[2]) = << 70, 70 >>
    /\ deckMovies[1].fun # deckMovies[2].fun
    /\ Cell(deckMovies[3]) = << 30, 90 >>
    /\ Len(out[1]) = 2

\* The alphabetical position of a lower-cased title.
LowerRank(lower) ==
    CASE lower = "alien" -> 1 [] lower = "brazil" -> 2 [] lower = "casablanca" -> 3
      [] lower = "dune" -> 4 [] lower = "eraserhead" -> 5

\* C25: within every group the items are in ascending order of their titles
\* compared without regard to case, and the items and the ids of the group name
\* the same movies, each member of the group once.
C25_ItemsSortedByTitle ==
    out # << >> =>
        \A g \in 1..Len(out[1]) :
            LET items == out[1][g].items
                ids   == out[1][g].ids
            IN  /\ \A k \in 1..(Len(items) - 1) :
                       LowerRank(LowerCased(items[k].title))
                           <= LowerRank(LowerCased(items[k + 1].title))
                /\ Len(items) = Len(ids)
                /\ { items[k].id : k \in 1..Len(items) } = Range(ids)
                /\ Cardinality(Range(ids)) = Len(ids)
                /\ Range(ids) = { deckMovies[i].id : i \in
                                    { j \in 1..Len(deckMovies) :
                                        /\ 10 * Cell(deckMovies[j])[1] = out[1][g].fun
                                        /\ 10 * Cell(deckMovies[j])[2] = out[1][g].good } }
                /\ \A k \in 1..Len(items) : \E i \in 1..Len(deckMovies) :
                       /\ deckMovies[i].id = items[k].id
                       /\ deckMovies[i].title = items[k].title

\* A group of three has been sorted whose list order was an upper-case title
\* before a lower-case title that precedes it in the alphabet.
C25_Witness ==
    /\ out # << >>
    /\ \E g \in 1..Len(out[1]) :
           /\ Len(out[1][g].items) = 3
           /\ out[1][g].items[1].title = "alien"
           /\ out[1][g].items[1].id = out[1][g].ids[3]
           /\ out[1][g].items[3].title = "Casablanca"
           /\ out[1][g].items[3].id = out[1][g].ids[1]

----------------------------------------------------------------------------
(* Title casing *)

\* The first and last positions of the words of a text: the maximal runs of
\* characters that are not white space.
WordBounds(text) ==
    { b \in (1..Len(text)) \X (1..Len(text)) :
        /\ b[1] <= b[2]
        /\ \A k \in b[1]..b[2] : ~IsSpace(text[k])
        /\ b[1] = 1 \/ IsSpace(text[b[1] - 1])
        /\ b[2] = Len(text) \/ IsSpace(text[b[2] + 1]) }

\* The words of a text from left to right.
WordsOf(text) ==
    LET bounds == WordBounds(text)
    IN  [ k \in 1..Cardinality(bounds) |->
            LET b == CHOOSE c \in bounds :
                         Cardinality({ d \in bounds : d[1] < c[1] }) = k - 1
            IN  SubSeq(text, b[1], b[2]) ]

\* The number of characters of the words together.
RECURSIVE Letters(_)
Letters(words) ==
    IF words = << >> THEN 0 ELSE Len(Head(words)) + Letters(Tail(words))

IsLower(c) == \E i \in 1..26 : LowerLetters[i] = c
IsUpper(c) == \E i \in 1..26 : UpperLetters[i] = c

\* The same letter or character, whatever its case.
SameLetter(c, d) ==
    \/ c = d
    \/ \E i \in 1..26 : { c, d } = { LowerLetters[i], UpperLetters[i] }

\* The words "a", "an", ... "with" written in lower case.
IsSmall(word) ==
    /\ \A k \in 1..Len(word) : ~IsUpper(word[k])
    /\ Text(word) \in { "a", "an", "and", "as", "at", "but", "by", "for", "from",
                         "in", "nor", "of", "on", "or", "the", "to", "with" }

\* C26: a typed title is committed trimmed, in lower case, word by word: every
\* word with its first letter in upper case, except a small word that is
\* neither the first nor the last, which stays in lower case; the words are
\* joined by single spaces ("the dark knight" becomes "The Dark Knight"); and
\* the commit of a drag sends the title of an existing movie as it is stored,
\* not in that casing.
C26_TitleCasing ==
    /\ Len(out) = 2 =>
           LET typed  == WordsOf(out[1])
               result == WordsOf(out[2])
               n      == Len(typed)
           IN  /\ Len(result) = n
               /\ Len(out[2]) = n - 1 + Letters(typed)
               /\ \A k \in 1..Len(out[2]) : IsSpace(out[2][k]) => out[2][k] = " "
               /\ \A k \in 1..n :
                      /\ Len(result[k]) = Len(typed[k])
                      /\ \A c \in 1..Len(typed[k]) :
                             /\ SameLetter(result[k][c], typed[k][c])
                             /\ c > 1 => ~IsUpper(result[k][c])
                      /\ IF k # 1 /\ k # n /\ IsSmall(toLowerCase(typed[k]))
                         THEN ~IsUpper(result[k][1])
                         ELSE ~IsLower(result[k][1])
               /\ out[1] = TheDarkKnight => Text(out[2]) = "The Dark Knight"
    /\ sent # << >> =>
           /\ Len(sent) = 1
           /\ sent[1].title = Text(trim(out[1]))
           /\ deckMovies[1].title = sent[1].title

\* A title of three words typed with a small word in upper case in the middle
\* has been formatted, and a drag of the movie stored under the title as it
\* was typed has been committed with a title that is not in that casing.
C26_Witness ==
    /\ Len(out) = 2
    /\ Len(WordsOf(out[1])) = 3
    /\ WordsOf(out[1])[2] = << "A" >>
    /\ WordsOf(out[2])[2] = << "a" >>
    /\ \E k \in 1..Len(out[1]) : out[1][k] = "\t"
    /\ sent # << >>
    /\ sent[1].title # Text(out[2])

----------------------------------------------------------------------------
(* The add-movie form *)

\* C27: a submission of the add-movie form with a title that is not empty and
\* a selected deck is sent whatever its scores are: a typed fun or good below 0
\* goes out as 0, one above 10 as 10, and one inside the range as it was typed.
C27_ScoresNeverRejected ==
    ( /\ Len(out) = 2
      /\ \E k \in 1..Len(out[1].title) : ~IsSpace(out[1].title[k])
      /\ selectedDeckId # NoDeck )
    => /\ Len(sent) = 1
       /\ sent[1].method = "POST"
       /\ sent[1].fun = Clamped(out[1].fun)
       /\ sent[1].good = Clamped(out[1].good)

----------------------------------------------------------------------------
(* Backend *)

\* Neither the row of the deck nor an association of it is in the database.
DeckGone(d, deckId) ==
    /\ deckId \notin d.decks
    /\ \A row \in d.deck_movies : row.deck_id # deckId

\* Every movie has an association to some deck.
NoOrphans(d) ==
    \A m \in d.movies : \E row \in d.deck_movies : row.movie_id = m.id

\* The other decks and their associations are the same in d and e.
OtherDecksSame(d, e, deckId) ==
    /\ d.decks \ { deckId } = e.decks \ { deckId }
    /\ { row \in d.deck_movies : row.deck_id # deckId }
           = { row \in e.deck_movies : row.deck_id # deckId }

\* C28: when the DELETE of a deck is answered 204 and no other request is in
\* flight, no association references the deck, its row is gone and no movie is
\* left without association; and no step of the route changes the other decks
\* or their associations.
C28_DeleteDeckCascades ==
    [][ \A r \in requests :
            ( r.route = "DELETE deck" /\ r \notin requests' )
            => /\ OtherDecksSame(db, db', r.deck)
               /\ ( out' # << >> /\ out'[1].status = 204 /\ requests' = { } )
                      => ( DeckGone(db', r.deck) /\ NoOrphans(db') ) ]_vars

\* C29: every movie in a 200 answer of the deck read endpoint has fun and good
\* within [0, 10], whatever create and update requests were accepted before.
C29_ReadScoresInRange ==
    ( out # << >> /\ out[1].route = "GET" /\ out[1].status = 200 )
    => \A i \in 1..Len(out[1].movies) :
           /\ 0 <= out[1].movies[i].fun /\ out[1].movies[i].fun <= 1000
           /\ 0 <= out[1].movies[i].good /\ out[1].movies[i].good <= 1000

----------------------------------------------------------------------------
(* Frame of the pointer steps *)

\* The step leaves the list as it is but for the fun and good of the movies
\* named by ids: the same movies in the same order with the same titles.
OnlyScoresOf(ids) ==
    /\ Len(deckMovies') = Len(deckMovies)
    /\ \A i \in 1..Len(deckMovies) :
           /\ deckMovies'[i].id = deckMovies[i].id
           /\ deckMovies'[i].title = deckMovies[i].title
           /\ deckMovies[i].id \notin Range(ids)
                  => /\ deckMovies'[i].fun = deckMovies[i].fun
                     /\ deckMovies'[i].good = deckMovies[i].good

\* C30: a pointer-down changes nothing but the fun and good of the movies of
\* the session it starts, and a pointer-move and a release nothing but those of
\* the movies of the active session: id, title, order and presence of every
\* movie and the scores of the movies outside the session stay.
C30_PointerStepsFrame ==
    [][ /\ nSessions' = nSessions + 1 => OnlyScoresOf(draggingGroup'.ids)
        /\ nMoves' = nMoves + 1 => OnlyScoresOf(draggingGroup.ids)
        /\ last'.ev = "up" => OnlyScoresOf(draggingGroup.ids) ]_vars

----------------------------------------------------------------------------
(* The score of a pointer-down *)

\* The score a pointer at p is mapped to, as applyMovieScores stores it.
DownScore(p) ==
    LET next == PointerScore(p.x, p.y)
    IN  [fun |-> roundScore(next.fun), good |-> roundScore(next.good)]

\* The movies of the session drag are at score in the list movies.
SessionAt(movies, drag, score) ==
    \A j \in 1..Len(movies) :
        movies[j].id \in Range(drag.ids)
        => movies[j].fun = score.fun /\ movies[j].good = score.good

\* A pointer-down records its coordinate and puts the ids of the session it
\* starts at the score of that coordinate.
PointerDownWrites ==
    nSessions' = nSessions + 1
    => /\ lastPointerRef' # NoPointer
       /\ SessionAt(deckMovies', draggingGroup', DownScore(lastPointerRef'))

\* A release of the active session with no pointer-move since its pointer-down
\* resolves the snap of that session from the pointer-down coordinate and sends,
\* for each of the session's movies, the snap target or else the pointer-down
\* score.
ReleaseWithoutMove ==
    ( last'.ev = "up" /\ nMoves = 0 /\ draggingGroup # NoDrag )
    => LET target == SnapResult(draggingGroup, lastPointerRef.x, lastPointerRef.y).snap
           score  == IF target # NoSnap THEN target ELSE DownScore(lastPointerRef)
       IN  /\ last'.snap = target
           /\ \A j \in 1..Len(deckMovies) :
                 deckMovies[j].id \in Range(draggingGroup.ids)
                 => \E i \in 1..Len(sent') :
                        /\ sent'[i].id = deckMovies[j].id
                        /\ sent'[i].fun = score.fun
                        /\ sent'[i].good = score.good

\* C31: a pointer-down at once writes the score of its coordinate to the ids of
\* its session and records the coordinate as the last pointer position, and a
\* release with no pointer-move in between resolves the snap from that
\* coordinate and commits the snap target or the pointer-down score for the
\* session's movies.
C31_PointerDownScoreCommitted ==
    [][ PointerDownWrites /\ ReleaseWithoutMove ]_vars

----------------------------------------------------------------------------
(* The movie list and the selected deck *)

\* The deck a movie of the backend's initial data belongs to; NoDeck for a
\* movie that was added since.
HomeDeck(id) ==
    IF \E m \in Range(ServerMovies("d1")) : m.id = id THEN "d1"
    ELSE IF \E m \in Range(ServerMovies("d2")) : m.id = id THEN "d2"
    ELSE NoDeck

\* After the step, the list holds no movie of a deck other than the selected one.
ListOfSelectedDeck ==
    \A j \in 1..Len(deckMovies') :
        HomeDeck(deckMovies'[j].id) \in { selectedDeckId', NoDeck }

\* An add-movie response appends its movie only to the list of the deck the
\* movie was added to.
AddedToSelectedDeck ==
    \A body \in addReq \ addReq' :
        Len(deckMovies') > Len(deckMovies) => body.deck = selectedDeckId'

\* C32: in every reachable state the movie list holds only movies of the
\* selected deck, also when the response of an add to deck A arrives after the
\* selection has gone to deck B.
C32_ListBelongsToSelectedDeck ==
    [][ ListOfSelectedDeck /\ AddedToSelectedDeck ]_vars

----------------------------------------------------------------------------
(* Answers of deck loads *)

\* The step is the arrival of the answer (or the failure) of a load of deck:
\* of the load the effect still holds, or of one it has abandoned.
LoadAnswered(deck) ==
    \/ loadReq = deck /\ loadReq' = NoDeck /\ UNCHANGED effectsPending
    \/ deck \in staleLoads \ staleLoads'

\* C33: the answer of a deck load that arrives when the selection has gone to
\* another deck is discarded: it leaves the movie list, the error notice and
\* the loading flag as they are, however loads and answers overlap.
C33_StaleLoadDiscarded ==
    [][ \A deck \in Decks :
            ( LoadAnswered(deck) /\ deck # selectedDeckId )
            => UNCHANGED << deckMovies, error, loading >> ]_vars

----------------------------------------------------------------------------
(* The movie count of the selected deck *)

\* Every add and remove has been answered, and the selection has stayed on the
\* deck that was loaded.
OperationsCompleted == addReq = { } /\ removeReq = { } /\ nSelects = 0

\* C34: once the adds and removes on the selected deck are completed, the
\* deck's movieCount is the length of the movie list and not negative, also
\* when a movie's remove was requested twice before the first answer.
C34_MovieCountIsListLength ==
    OperationsCompleted =>
        /\ decks[selectedDeckId] = Len(deckMovies)
        /\ decks[selectedDeckId] >= 0

----------------------------------------------------------------------------
(* Associations and created movies under interleaved handlers *)

\* Every row of deck_movies names a deck and a movie that exist.
References(d) ==
    \A row \in d.deck_movies :
        /\ row.deck_id \in d.decks
        /\ \E m \in d.movies : m.id = row.movie_id

\* The movie exists and is associated with the deck.
Created(d, deckId, movieId) ==
    /\ \E m \in d.movies : m.id = movieId
    /\ \E row \in d.deck_movies : row.deck_id = deckId /\ row.movie_id = movieId

\* C35: however the statements of concurrent handlers interleave, every
\* deck_movies association references an existing deck and an existing movie,
\* and a movie a 201 reports as created exists with its association when all
\* handlers have finished.
C35_AssociationsAndCreatedMovies ==
    /\ References(db)
    /\ ( out # << >> /\ out[1].route = "POST" /\ out[1].status = 201
         /\ requests = { } )
       => Created(db, out[1].deck, out[1].movie)

----------------------------------------------------------------------------
(* The fallback of the database client *)

\* In this step the promise of `call`, awaited on the client `on`, is rejected.
FailedOn(call, on) ==
    /\ call \in executing
    /\ call.on = on
    /\ call \notin executing'
    /\ out' # << Outcome(call, TRUE) >>

\* The call as it is in flight after it has been made again on the local client.
Retried(call) == [call EXCEPT !.on = "local", !.attempts = @ + 1, !.caught = TRUE]

\* C36: with a remote database configured, an execute call that fails on the
\* remote client is made once more, on the local client, whose result or error
\* it hands on; also a call that was in flight on the remote client when
\* another call triggered the fallback.
C36_RemoteFailureRetriedLocally ==
    [][ \A call \in executing :
            FailedOn(call, "remote")
            => /\ call.attempts = 1
               /\ Retried(call) \in executing' ]_vars

\* C37: the fallback is one-way and happens at most once: the active client
\* changes only from remote to local, a call made while it is local runs on the
\* local client, and a call that fails on the local client (also with no remote
\* configured) is raised to the caller and not made again.
C37_FallbackOneWay ==
    [][ /\ clients.activeClient = "local" => clients'.activeClient = "local"
        /\ clients' # clients => ( ~clients.hasFallenBack /\ clients'.hasFallenBack )
        /\ ( clients.activeClient = "local" /\ nCalls' = nCalls + 1 )
           => \A call \in executing' \ executing : call.on = "local"
        /\ \A call \in executing :
               FailedOn(call, "local")
               => /\ out' = << Outcome(call, FALSE) >>
                  /\ \A later \in executing' : later.n # call.n ]_vars

\* After the fallback a later call has failed on the local client and its error
\* has been raised after that one attempt.
C37_Witness ==
    /\ clients.remoteClient /\ clients.hasFallenBack
    /\ out # << >> /\ ~out[1].ok /\ out[1].on = "local" /\ out[1].attempts = 1

----------------------------------------------------------------------------
(* Rejected requests *)

\* The routes that answer 404 for a deck that does not exist before they write.
AsksForDeck == { "PUT deck", "POST", "PUT" }

\* What the claim names as a request to reject with 400: a deck created or
\* renamed with an empty name, a movie created with an empty title, a movie
\* created or updated with scores that are not numbers.
NamedFor400(r) ==
    \/ r.route = "POST deck" /\ r.name = ""
    \/ r.route = "PUT deck" /\ r.name = ""
    \/ r.route = "POST" /\ ( r.title = "" \/ r.isNaN )
    \/ r.route = "PUT" /\ r.isNaN

\* The step answers a request with 400 or 404.
Rejects == out' # << >> /\ out'[1].status \in { 400, 404 }

\* C38: a request that is rejected leaves the database unchanged.  A deck
\* created or renamed with an empty name, a movie created with an empty title,
\* and a movie created or updated with scores that are not numbers, is answered
\* 400 on arrival; a rename, a movie create and a movie update for a missing
\* deck is answered 404 after ensureDeckExists; the step that answers 400 or 404
\* changes no row, and the request has run no statement before it.
C38_RejectedRequestWritesNothing ==
    [][ /\ Rejects
           => /\ db' = db
              /\ \A r \in requests : r.n = out'[1].n => r.pc = "SELECT decks"
        /\ \A r \in requests' : ~NamedFor400(r)
        /\ \A r \in requests :
               ( r.route \in AsksForDeck /\ r.pc = "SELECT decks"
                 /\ r.deck \notin db.decks /\ r \notin requests' )
               => /\ out' = << Response(r, 404, << >>) >>
                  /\ db' = db ]_vars

\* A movie create for a missing deck has been answered 404 while another
\* request, which has written to the database, is still in flight.
C38_Witness ==
    /\ out # << >> /\ out[1].status = 404 /\ out[1].route = "POST"
    /\ requests # { }
    /\ db.deck_movies # InitialDb(db.foreign_keys).deck_movies

====
